---- MODULE Spec2Model ----
(***************************************************************************)
(* Model of the cognitive-core extension: the HypergraphSubstrate with its *)
(* MemorySubstratePersistence strategy (utils/HypergraphSubstrate.cpp) and *)
(* the CognitiveKernel state machine (utils/CognitiveKernel.cpp).          *)
(*                                                                         *)
(* Weights (double) are modelled in exact fixed point, in tenths: 10 is    *)
(* 1.0 and 0.7 * a is (a * 7) \div 10.  Ratios returned by the metrics are *)
(* kept as pairs <<numerator, denominator>>.                               *)
(***************************************************************************)
EXTENDS Integers, FiniteSets, Sequences, TLC

VARIABLES
  nodes_,               \* HypergraphSubstrate::nodes_   : NodeId -> HyperNode
  edges_,               \* HypergraphSubstrate::edges_   : EdgeId -> HyperEdge
  persistence_nodes_,   \* MemorySubstratePersistence::nodes_
  persistence_edges_,   \* MemorySubstratePersistence::edges_
  substrate_mutex_,     \* "free", or "held" by a caller that never returns
  call,                 \* the last public substrate call and what it returned
  round_trip,           \* progress of a caller's save(); clear(); load()
  observe_calls,        \* whether call and round_trip are being recorded
  current_state_,       \* CognitiveKernel::current_state_
  memory_store_,        \* CognitiveMemory::memory_store_
  echo_identity_,       \* CognitiveKernel::echo_identity_
  process_counter_,     \* CognitiveKernel::process_counter_
  hasher,               \* std::hash<std::string> of this build, on the texts hashed
  kcall,                \* the last public kernel call and what it returned
  threads,              \* where each thread calling the substrate is in its call
  kernel_threads,       \* where each thread calling the kernel is in its call
  persistence_,         \* HypergraphSubstrate::persistence_, the strategy in use
  propagations,         \* a caller's tally of its successive propagate calls
  processor             \* a CognitiveProcessor in onTrigger: its position, locals and session

substrate_vars == <<nodes_, edges_, persistence_nodes_, persistence_edges_,
                    substrate_mutex_, call, round_trip, observe_calls>>
kernel_vars == <<current_state_, memory_store_, echo_identity_,
                 process_counter_, hasher, kcall>>
thread_vars == <<threads, kernel_threads>>
vars == <<nodes_, edges_, persistence_nodes_, persistence_edges_,
          substrate_mutex_, call, round_trip, observe_calls, current_state_,
          memory_store_, echo_identity_, process_counter_, hasher, kcall,
          threads, kernel_threads, persistence_, propagations, processor>>

----------------------------------------------------------------------------
(* Bounds *)

MaxNodes == 2        \* node ids the callers of Spec and SpecCalls use
MaxEdges == 2        \* edge ids the callers of Spec and SpecCalls use
PathNodes == 3       \* node ids the callers of SpecActivation use
PathEdges == 2       \* edge ids the callers of SpecActivation use
MaxActivation == 10  \* activations the callers of Spec let a node reach
PathActivation == 14 \* activations the callers of SpecActivation let it reach
TriangleNodes == 3   \* node ids the callers of SpecMetrics use
TriangleEdges == 3   \* edge ids the callers of SpecMetrics use
ThreadNodes == 1     \* node ids the threads of SpecThreads use
ThreadEdges == 1     \* edge ids the threads of SpecThreads use
AbsentNodes == 2     \* node ids the callers of SpecAbsent use
AbsentEdges == 1     \* edge ids the callers of SpecAbsent use
StrategyNodes == 2   \* node ids the callers of SpecSave, SpecLoad and SpecStrategy use
StrategyEdges == 1   \* edge ids the callers of SpecSave, SpecLoad and SpecStrategy use
QueryNodes == 3      \* node ids the callers of SpecQueries use
QueryEdges == 2      \* edge ids the callers of SpecQueries use
SearchNodes == 2     \* node ids the callers of SpecSearch use
SearchEdges == 1     \* edge ids the callers of SpecSearch use
DensityNodes == 3    \* node ids the callers of SpecDensity use
DensityEdges == 3    \* edge ids the callers of SpecDensity use
PropagateNodes == 4  \* node ids the callers of SpecPropagate use
PropagateEdges == 4  \* edge ids the callers of SpecPropagate use
PropagateActivation == 21 \* activations the callers of SpecPropagate let a node reach
MaxPropagations == 3 \* successive identical propagate calls a caller of SpecPropagate makes
MaxFlowFiles == 2    \* flow files the upstream connection of SpecMapper delivers
FlowFileAttributes == 2 \* attributes every flow file of SpecMapper carries
MaxHash == 2         \* hash values range over 1..MaxHash
MaxProcessCount == 2 \* process_cognitive_signal calls per behaviour

NodeIds == 1..MaxNodes
EdgeIds == 1..MaxEdges
PathNodeIds == 1..PathNodes
PathEdgeIds == 1..PathEdges
TriangleNodeIds == 1..TriangleNodes
TriangleEdgeIds == 1..TriangleEdges
AbsentNodeIds == 1..AbsentNodes
ThreadNodeIds == 1..ThreadNodes
ThreadEdgeIds == 1..ThreadEdges
AbsentEdgeIds == 1..AbsentEdges
DensityNodeIds == 1..DensityNodes
SearchNodeIds == 1..SearchNodes
SearchEdgeIds == 1..SearchEdges
QueryNodeIds == 1..QueryNodes
QueryEdgeIds == 1..QueryEdges
StrategyNodeIds == 1..StrategyNodes
StrategyEdgeIds == 1..StrategyEdges
DensityEdgeIds == 1..DensityEdges
PropagateNodeIds == 1..PropagateNodes
PropagateEdgeIds == 1..PropagateEdges
FlowFileIds == 1..MaxFlowFiles
FlowFileAttributeNames == 1..FlowFileAttributes

(* The empty mapping (an empty unordered_map). *)
EmptyMap == [x \in {} |-> 0]

Put(f, k, v) == [x \in (DOMAIN f) \cup {k} |-> IF x = k THEN v ELSE f[x]]
Erase(f, ks) == [x \in (DOMAIN f) \ ks |-> f[x]]

----------------------------------------------------------------------------
(* Data model *)

(* HyperNode values the callers pass in.  "First" carries an attribute and *)
(* an echo pattern, "Second" is a node built with the (id, label)          *)
(* constructor only.                                                       *)
NodePayloads ==
  { [label |-> "First",  attributes |-> [k \in {"key"} |-> "value"],
     echo_patterns |-> <<"cognitive">>],
    [label |-> "Second", attributes |-> EmptyMap,
     echo_patterns |-> <<>>] }

HyperNode(id, payload, activation) ==
  [id |-> id, label |-> payload.label, attributes |-> payload.attributes,
   echo_patterns |-> payload.echo_patterns, activation_level |-> activation]

NodeInputs(ids, payloads, activations) ==
  { HyperNode(id, p, a) : id \in ids, p \in payloads, a \in activations }

HyperEdge(id, members) ==
  [id |-> id, connected_nodes |-> members, attributes |-> EmptyMap,
   strength |-> 10]

EdgeInputs(edge_ids, node_ids) ==
  { HyperEdge(id, m) : id \in edge_ids, m \in SUBSET node_ids }

(* The nodes and edges the callers of SpecSearch store: nodes with a type  *)
(* attribute and echo patterns, one of them listing a pattern twice, and a *)
(* node with neither; edges without members, with and without a type       *)
(* attribute.  SearchAttributes and SearchPatterns are what they look for. *)
SearchNodePayloads ==
  { [label |-> "Type A Node", attributes |-> [k \in {"type"} |-> "content"],
     echo_patterns |-> <<"cognitive", "pattern">>],
    [label |-> "Type B Node", attributes |-> [k \in {"type"} |-> "attribute"],
     echo_patterns |-> <<"cognitive", "cognitive">>],
    [label |-> "Plain Node", attributes |-> EmptyMap, echo_patterns |-> <<>>] }

SearchEdgeInputs(edge_ids) ==
  { [HyperEdge(id, {}) EXCEPT !.attributes = a] :
      id \in edge_ids, a \in { EmptyMap, [k \in {"type"} |-> "content"] } }

SearchAttributes ==
  { <<"type", "content">>, <<"type", "attribute">>, <<"type", "value">>,
    <<"nonexistent", "value">> }

SearchPatterns == {"cognitive", "pattern", "nonexistent"}

(* The threads that share one substrate, and those that share one kernel. *)
Threads == {"t1", "t2"}
KernelThreads == {"k1", "k2"}

(* A thread outside any substrate call. *)
IdleThread ==
  [pc |-> "idle", op |-> "none", arg |-> [id |-> 0, connected_nodes |-> {}],
   edges_to_remove |-> {}, entered |-> <<>>, ret |-> "void"]

(* A thread that has not called the kernel yet. *)
IdleKernelThread == [pc |-> "idle", old_state |-> "DORMANT", count |-> 0]

(* What a call reports: the operation, its id argument, how it completed   *)
(* ("true", "false", "void", "value", "invalid_argument", "system_error",  *)
(* "hang"), a value (the node passed in, the value returned, the edges a   *)
(* removal cascaded to, the ids a save pushed or a load dropped), and the number of times the calling thread locked *)
(* substrate_mutex_ without releasing it in between.                       *)
NoValue == <<0, 1>>
NoCall == [op |-> "none", id |-> 0, ret |-> "void", val |-> NoValue, locks |-> 0]

Call(op, id, ret, val, locks) ==
  IF observe_calls
    THEN [op |-> op, id |-> id, ret |-> ret, val |-> val, locks |-> locks]
    ELSE NoCall

(* The caller's view of a save(); clear(); load() sequence: stage 1 after  *)
(* save() with the tables it saw, 2 after the clear() that follows, 3      *)
(* after the load() that follows; any other call starts over.              *)
NoRoundTrip == [stage |-> 0, nodes |-> EmptyMap, edges |-> EmptyMap]

RoundTrip(progress) == IF observe_calls THEN progress ELSE NoRoundTrip

(* A caller's tally of the propagate calls it made one after the other     *)
(* with the same arguments on the same graph: the arguments, the number of *)
(* calls, and the tables it saw before the first of them.                  *)
NoPropagations ==
  [source |-> 0, activation |-> 0, count |-> 0, nodes |-> EmptyMap, edges |-> EmptyMap]

(* The locals of process_with_hypergraph and of the functions it calls,    *)
(* before any of them is assigned: the stream and attributes of the flow   *)
(* file in hand, content, the words and attributes a loop still has to     *)
(* visit (unique_words, attributes), content_related_nodes,                *)
(* attribute_nodes, the attribute of the current iteration and             *)
(* similar_cluster.                                                        *)
NoLocals ==
  [stream |-> <<>>, content |-> <<>>, unique_words |-> {}, attributes |-> {},
   content_related_nodes |-> {}, attribute_nodes |-> {}, attr_name |-> 0,
   similar_cluster |-> {}]

(* A processor outside onTrigger that has not been triggered yet: no flow  *)
(* file in hand, no flow file queued or transferred, nothing thrown.       *)
IdleProcessor ==
  [pc |-> "idle", outcome |-> "none", flow_file |-> 0, locals |-> NoLocals,
   queued |-> {}, transferred |-> <<>>, edge_counter_ |-> 0]

----------------------------------------------------------------------------
(* MemorySubstratePersistence *)

(* The strategy the constructor makes when it is given none: every save   *)
(* and every load of a stored id succeeds.                                 *)
MemorySubstratePersistence ==
  [type |-> "MemorySubstratePersistence",
   failing_save_nodes |-> {}, failing_save_edges |-> {},
   failing_load_nodes |-> {}, failing_load_edges |-> {}]

(* Other implementations of SubstratePersistence a caller may pass to the  *)
(* constructor: save_node, save_edge, load_node and load_edge return false *)
(* for the ids listed and leave the store and the out-parameter alone.     *)
SubstratePersistences(save_nodes, save_edges, load_nodes, load_edges) ==
  { [type |-> "SubstratePersistence",
     failing_save_nodes |-> sn, failing_save_edges |-> se,
     failing_load_nodes |-> ln, failing_load_edges |-> le] :
      sn \in SUBSET save_nodes, se \in SUBSET save_edges,
      ln \in SUBSET load_nodes, le \in SUBSET load_edges }

(* A save_node that keeps the record an id already has. *)
persistence_insert_node(store, node) ==
  IF node.id \in DOMAIN store THEN store ELSE Put(store, node.id, node)

(* persistence_->save_node(node) and persistence_->save_edge(edge): an     *)
(* upsert into the strategy's store when the save succeeds.                *)
persistence_save_node(store, node) ==
  IF node.id \in persistence_.failing_save_nodes THEN store
  ELSE Put(store, node.id, node)

persistence_save_edge(store, edge) ==
  IF edge.id \in persistence_.failing_save_edges THEN store
  ELSE Put(store, edge.id, edge)

(* A remove that leaves the strategy's store as it is. *)
persistence_remove_nothing(store, ids) == store

(* persistence_->remove_node(id) and persistence_->remove_edge(id) *)
persistence_remove(store, ids) == Erase(store, ids)

(* The vectors a walk over an unordered_map can build by one push_back for *)
(* each key in keys: the order is the build's.                             *)
PushBackOrders(keys) ==
  { v \in [1..Cardinality(keys) -> keys] :
      \A i, j \in DOMAIN v : i # j => v[i] # v[j] }

(* The strategy called directly, as its own object.  kind is "node" or     *)
(* "edge"; the call is recorded with the record passed in or returned.     *)
StrategyStore(kind) == IF kind = "node" THEN persistence_nodes_ ELSE persistence_edges_

StrategyFrame(kind) ==
  /\ IF kind = "node" THEN UNCHANGED persistence_edges_
                       ELSE UNCHANGED persistence_nodes_
  /\ round_trip' = NoRoundTrip
  /\ UNCHANGED <<nodes_, edges_, substrate_mutex_, observe_calls>>
  /\ UNCHANGED <<kernel_vars, thread_vars, persistence_, propagations, processor>>

strategy_save_node(node) ==
  /\ persistence_nodes_' = persistence_save_node(persistence_nodes_, node)
  /\ call' = Call("save_node", node.id,
                  IF node.id \in persistence_.failing_save_nodes THEN "false" ELSE "true",
                  node, 0)
  /\ StrategyFrame("node")

strategy_save_edge(edge) ==
  /\ persistence_edges_' = persistence_save_edge(persistence_edges_, edge)
  /\ call' = Call("save_edge", edge.id,
                  IF edge.id \in persistence_.failing_save_edges THEN "false" ELSE "true",
                  edge, 0)
  /\ StrategyFrame("edge")

(* load_node and load_edge: true and the record through the out-parameter, *)
(* or false with the out-parameter untouched.                              *)
strategy_load(kind, id) ==
  /\ call' = IF id \in DOMAIN StrategyStore(kind)
               THEN Call("load_" \o kind, id, "true", StrategyStore(kind)[id], 0)
               ELSE Call("load_" \o kind, id, "false", NoValue, 0)
  /\ UNCHANGED <<persistence_nodes_, persistence_edges_>>
  /\ StrategyFrame(kind)

(* remove_node and remove_edge: erase(id) > 0 *)
strategy_remove(kind, id) ==
  /\ IF kind = "node"
       THEN persistence_nodes_' = persistence_remove(persistence_nodes_, {id})
       ELSE persistence_edges_' = persistence_remove(persistence_edges_, {id})
  /\ call' = Call("remove_" \o kind, id,
                  IF id \in DOMAIN StrategyStore(kind) THEN "true" ELSE "false",
                  NoValue, 0)
  /\ StrategyFrame(kind)

(* get_all_node_ids and get_all_edge_ids: one push_back for each key, in   *)
(* the order of the unordered_map.                                         *)
strategy_get_all_ids(kind) ==
  /\ \E ids \in PushBackOrders(DOMAIN StrategyStore(kind)) :
       call' = Call("get_all_" \o kind \o "_ids", 0, "value", ids, 0)
  /\ UNCHANGED <<persistence_nodes_, persistence_edges_>>
  /\ StrategyFrame(kind)

----------------------------------------------------------------------------
(* HypergraphSubstrate internals *)

(* A validation that accepts every edge. *)
validate_nothing(edge) == TRUE

validate_edge_consistency(edge) ==
  \A node_id \in edge.connected_nodes : node_id \in DOMAIN nodes_

(* A cascade that forgets the membership test. *)
edges_to_remove_all(id) == DOMAIN edges_

(* The edges remove_node collects in edges_to_remove. *)
edges_to_remove(id) ==
  { edge_id \in DOMAIN edges_ : id \in edges_[edge_id].connected_nodes }

(* A membership scan that keeps the queried id among the results. *)
connected_with_self(id) ==
  UNION { edges_[e].connected_nodes :
          e \in { e \in DOMAIN edges_ : id \in edges_[e].connected_nodes } }

(* The std::set built by get_connected_nodes. *)
connected(id) ==
  UNION { edges_[e].connected_nodes \ {id} :
          e \in { e \in DOMAIN edges_ : id \in edges_[e].connected_nodes } }

(* get_reachable_nodes: breadth-first over hyperedge membership, one level *)
(* per hop; visited starts as {source}, so the source is never returned.   *)
RECURSIVE bfs(_, _, _, _)
bfs(frontier, visited, hops, max_hops) ==
  IF frontier = {} \/ hops >= max_hops
    THEN visited
    ELSE LET found == (UNION { connected(c) : c \in frontier }) \ visited
         IN  bfs(found, visited \cup found, hops + 1, max_hops)

(* A traversal that stops one hop early. *)
get_reachable_one_hop_short(source, max_hops) ==
  bfs({source}, {source}, 0, max_hops - 1) \ {source}

get_reachable_nodes(source, max_hops) ==
  bfs({source}, {source}, 0, max_hops) \ {source}

(* A decay of one half. *)
propagated_activation_halved(initial_activation) == initial_activation \div 2

(* initial_activation * 0.7 *)
propagated_activation(initial_activation) == (initial_activation * 7) \div 10

----------------------------------------------------------------------------
(* HypergraphSubstrate public operations.  Each takes substrate_mutex_ on  *)
(* entry (std::lock_guard) and releases it on return or throw.             *)

Unlocked == substrate_mutex_ = "free"

(* An add_node that overwrites a stored node before reporting the duplicate. *)
add_node_overwrite(node) ==
  /\ Unlocked
  /\ UNCHANGED <<kernel_vars, thread_vars, persistence_, propagations, processor>>
  /\ nodes_' = Put(nodes_, node.id, node)
  /\ persistence_nodes_' = persistence_save_node(persistence_nodes_, node)
  /\ call' = Call("add_node", node.id,
                  IF node.id \in DOMAIN nodes_ THEN "false" ELSE "true", node, 1)
  /\ round_trip' = NoRoundTrip
  /\ UNCHANGED <<edges_, persistence_edges_, substrate_mutex_, observe_calls>>

add_node(node) ==
  /\ Unlocked
  /\ UNCHANGED <<kernel_vars, thread_vars, persistence_, propagations, processor>>
  /\ IF node.id \in DOMAIN nodes_
       THEN /\ call' = Call("add_node", node.id, "false", node, 1)
            /\ UNCHANGED <<nodes_, persistence_nodes_>>
       ELSE /\ nodes_' = Put(nodes_, node.id, node)
            /\ persistence_nodes_' = persistence_save_node(persistence_nodes_, node)
            /\ call' = Call("add_node", node.id, "true", node, 1)
  /\ round_trip' = NoRoundTrip
  /\ UNCHANGED <<edges_, persistence_edges_, substrate_mutex_, observe_calls>>

remove_node(id) ==
  /\ Unlocked
  /\ UNCHANGED <<kernel_vars, thread_vars, persistence_, propagations, processor>>
  /\ LET doomed  == edges_to_remove(id)
         removed == id \in DOMAIN nodes_
     IN  /\ edges_' = Erase(edges_, doomed)
         /\ persistence_edges_' = persistence_remove(persistence_edges_, doomed)
         /\ nodes_' = Erase(nodes_, {id})
         /\ persistence_nodes_' =
              IF removed THEN persistence_remove(persistence_nodes_, {id})
                         ELSE persistence_nodes_
         /\ call' = Call("remove_node", id,
                         IF removed THEN "true" ELSE "false", doomed, 1)
  /\ round_trip' = NoRoundTrip
  /\ UNCHANGED <<substrate_mutex_, observe_calls>>

(* An update_node that stores the node when its id is absent. *)
update_node_upsert(node) ==
  /\ Unlocked
  /\ UNCHANGED <<kernel_vars, thread_vars, persistence_, propagations, processor>>
  /\ nodes_' = Put(nodes_, node.id, node)
  /\ persistence_nodes_' = persistence_save_node(persistence_nodes_, node)
  /\ call' = Call("update_node", node.id,
                  IF node.id \in DOMAIN nodes_ THEN "true" ELSE "false", node, 1)
  /\ round_trip' = NoRoundTrip
  /\ UNCHANGED <<edges_, persistence_edges_, substrate_mutex_, observe_calls>>

update_node(node) ==
  /\ Unlocked
  /\ UNCHANGED <<kernel_vars, thread_vars, persistence_, propagations, processor>>
  /\ IF node.id \notin DOMAIN nodes_
       THEN /\ call' = Call("update_node", node.id, "false", node, 1)
            /\ UNCHANGED <<nodes_, persistence_nodes_>>
       ELSE /\ nodes_' = Put(nodes_, node.id, node)
            /\ persistence_nodes_' = persistence_save_node(persistence_nodes_, node)
            /\ call' = Call("update_node", node.id, "true", node, 1)
  /\ round_trip' = NoRoundTrip
  /\ UNCHANGED <<edges_, persistence_edges_, substrate_mutex_, observe_calls>>

(* get_node: true and the stored node through the out-parameter, or false *)
(* with the out-parameter untouched.                                       *)
get_node(id) ==
  /\ Unlocked
  /\ UNCHANGED <<kernel_vars, thread_vars, persistence_, propagations, processor>>
  /\ call' = IF id \in DOMAIN nodes_
               THEN Call("get_node", id, "true", nodes_[id], 1)
               ELSE Call("get_node", id, "false", NoValue, 1)
  /\ round_trip' = NoRoundTrip
  /\ UNCHANGED <<nodes_, edges_, persistence_nodes_, persistence_edges_,
                 substrate_mutex_, observe_calls>>

(* An add_edge that stores the edge before validating it. *)
add_edge_store_first(edge) ==
  /\ Unlocked
  /\ UNCHANGED <<kernel_vars, thread_vars, persistence_, propagations, processor>>
  /\ IF edge.id \in DOMAIN edges_
       THEN /\ call' = Call("add_edge", edge.id, "false", NoValue, 1)
            /\ UNCHANGED <<edges_, persistence_edges_>>
       ELSE /\ edges_' = Put(edges_, edge.id, edge)
            /\ IF ~validate_edge_consistency(edge)
                 THEN /\ call' = Call("add_edge", edge.id, "invalid_argument", NoValue, 1)
                      /\ UNCHANGED persistence_edges_
                 ELSE /\ persistence_edges_' =
                           persistence_save_edge(persistence_edges_, edge)
                      /\ call' = Call("add_edge", edge.id, "true", NoValue, 1)
  /\ round_trip' = NoRoundTrip
  /\ UNCHANGED <<nodes_, persistence_nodes_, substrate_mutex_, observe_calls>>

add_edge(edge) ==
  /\ Unlocked
  /\ UNCHANGED <<kernel_vars, thread_vars, persistence_, propagations, processor>>
  /\ IF edge.id \in DOMAIN edges_
       THEN /\ call' = Call("add_edge", edge.id, "false", NoValue, 1)
            /\ UNCHANGED <<edges_, persistence_edges_>>
       ELSE IF ~validate_edge_consistency(edge)
       THEN /\ call' = Call("add_edge", edge.id, "invalid_argument", NoValue, 1)
            /\ UNCHANGED <<edges_, persistence_edges_>>
       ELSE /\ edges_' = Put(edges_, edge.id, edge)
            /\ persistence_edges_' = persistence_save_edge(persistence_edges_, edge)
            /\ call' = Call("add_edge", edge.id, "true", NoValue, 1)
  /\ round_trip' = NoRoundTrip
  /\ UNCHANGED <<nodes_, persistence_nodes_, substrate_mutex_, observe_calls>>

remove_edge(id) ==
  /\ Unlocked
  /\ UNCHANGED <<kernel_vars, thread_vars, persistence_, propagations, processor>>
  /\ LET removed == id \in DOMAIN edges_
     IN  /\ edges_' = Erase(edges_, {id})
         /\ persistence_edges_' =
              IF removed THEN persistence_remove(persistence_edges_, {id})
                         ELSE persistence_edges_
         /\ call' = Call("remove_edge", id,
                         IF removed THEN "true" ELSE "false", NoValue, 1)
  /\ round_trip' = NoRoundTrip
  /\ UNCHANGED <<nodes_, persistence_nodes_, substrate_mutex_, observe_calls>>

(* An update_edge that replaces the stored edge without validating it. *)
update_edge_unvalidated(edge) ==
  /\ Unlocked
  /\ UNCHANGED <<kernel_vars, thread_vars, persistence_, propagations, processor>>
  /\ IF edge.id \notin DOMAIN edges_
       THEN /\ call' = Call("update_edge", edge.id, "false", NoValue, 1)
            /\ UNCHANGED <<edges_, persistence_edges_>>
       ELSE /\ edges_' = Put(edges_, edge.id, edge)
            /\ persistence_edges_' = persistence_save_edge(persistence_edges_, edge)
            /\ call' = Call("update_edge", edge.id, "true", NoValue, 1)
  /\ round_trip' = NoRoundTrip
  /\ UNCHANGED <<nodes_, persistence_nodes_, substrate_mutex_, observe_calls>>

(* An update_edge that replaces the live edge without saving it. *)
update_edge_unsaved(edge) ==
  /\ Unlocked
  /\ UNCHANGED <<kernel_vars, thread_vars, persistence_, propagations, processor>>
  /\ IF edge.id \notin DOMAIN edges_
       THEN /\ call' = Call("update_edge", edge.id, "false", NoValue, 1)
            /\ UNCHANGED <<edges_, persistence_edges_>>
       ELSE IF ~validate_edge_consistency(edge)
       THEN /\ call' = Call("update_edge", edge.id, "invalid_argument", NoValue, 1)
            /\ UNCHANGED <<edges_, persistence_edges_>>
       ELSE /\ edges_' = Put(edges_, edge.id, edge)
            /\ UNCHANGED persistence_edges_
            /\ call' = Call("update_edge", edge.id, "true", NoValue, 1)
  /\ round_trip' = NoRoundTrip
  /\ UNCHANGED <<nodes_, persistence_nodes_, substrate_mutex_, observe_calls>>

update_edge(edge) ==
  /\ Unlocked
  /\ UNCHANGED <<kernel_vars, thread_vars, persistence_, propagations, processor>>
  /\ IF edge.id \notin DOMAIN edges_
       THEN /\ call' = Call("update_edge", edge.id, "false", NoValue, 1)
            /\ UNCHANGED <<edges_, persistence_edges_>>
       ELSE IF ~validate_edge_consistency(edge)
       THEN /\ call' = Call("update_edge", edge.id, "invalid_argument", NoValue, 1)
            /\ UNCHANGED <<edges_, persistence_edges_>>
       ELSE /\ edges_' = Put(edges_, edge.id, edge)
            /\ persistence_edges_' = persistence_save_edge(persistence_edges_, edge)
            /\ call' = Call("update_edge", edge.id, "true", NoValue, 1)
  /\ round_trip' = NoRoundTrip
  /\ UNCHANGED <<nodes_, persistence_nodes_, substrate_mutex_, observe_calls>>

get_edge(id) ==
  /\ Unlocked
  /\ UNCHANGED <<kernel_vars, thread_vars, persistence_, propagations, processor>>
  /\ call' = IF id \in DOMAIN edges_
               THEN Call("get_edge", id, "true", edges_[id], 1)
               ELSE Call("get_edge", id, "false", NoValue, 1)
  /\ round_trip' = NoRoundTrip
  /\ UNCHANGED <<nodes_, edges_, persistence_nodes_, persistence_edges_,
                 substrate_mutex_, observe_calls>>

(* std::vector(set.begin(), set.end()): the elements of a std::set in      *)
(* ascending order.                                                        *)
RECURSIVE SetToVector(_)
SetToVector(set) ==
  IF set = {} THEN <<>>
  ELSE LET least == CHOOSE x \in set : \A y \in set : x <= y
       IN  <<least>> \o SetToVector(set \ {least})

get_connected_nodes(id) ==
  /\ Unlocked
  /\ UNCHANGED <<kernel_vars, thread_vars, persistence_, propagations, processor>>
  /\ call' = Call("get_connected_nodes", id, "value", SetToVector(connected(id)), 1)
  /\ round_trip' = NoRoundTrip
  /\ UNCHANGED <<nodes_, edges_, persistence_nodes_, persistence_edges_,
                 substrate_mutex_, observe_calls>>

get_incident_edges(id) ==
  /\ Unlocked
  /\ UNCHANGED <<kernel_vars, thread_vars, persistence_, propagations, processor>>
  /\ \E incident \in PushBackOrders({ edge_id \in DOMAIN edges_ :
                                        id \in edges_[edge_id].connected_nodes }) :
       call' = Call("get_incident_edges", id, "value", incident, 1)
  /\ round_trip' = NoRoundTrip
  /\ UNCHANGED <<nodes_, edges_, persistence_nodes_, persistence_edges_,
                 substrate_mutex_, observe_calls>>

(* The ids of the records in table whose attribute map holds value under   *)
(* key.                                                                    *)
attribute_matches(table, key, value) ==
  { id \in DOMAIN table :
      key \in DOMAIN table[id].attributes /\ table[id].attributes[key] = value }

find_nodes_by_attribute(key, value) ==
  /\ Unlocked
  /\ UNCHANGED <<kernel_vars, thread_vars, persistence_, propagations, processor>>
  /\ \E matches \in PushBackOrders(attribute_matches(nodes_, key, value)) :
       call' = Call("find_nodes_by_attribute", <<key, value>>, "value", matches, 1)
  /\ round_trip' = NoRoundTrip
  /\ UNCHANGED <<nodes_, edges_, persistence_nodes_, persistence_edges_,
                 substrate_mutex_, observe_calls>>

find_edges_by_attribute(key, value) ==
  /\ Unlocked
  /\ UNCHANGED <<kernel_vars, thread_vars, persistence_, propagations, processor>>
  /\ \E matches \in PushBackOrders(attribute_matches(edges_, key, value)) :
       call' = Call("find_edges_by_attribute", <<key, value>>, "value", matches, 1)
  /\ round_trip' = NoRoundTrip
  /\ UNCHANGED <<nodes_, edges_, persistence_nodes_, persistence_edges_,
                 substrate_mutex_, observe_calls>>

(* A pattern loop without the break: one push_back for every entry equal   *)
(* to the pattern.                                                         *)
pattern_pushes_without_break(echo_patterns, pattern) ==
  Cardinality({ i \in DOMAIN echo_patterns : echo_patterns[i] = pattern })

(* How often the inner loop of find_nodes_by_echo_pattern pushes a node's  *)
(* id: once at the first entry equal to the pattern, then it breaks.       *)
pattern_pushes(echo_patterns, pattern) ==
  IF \E i \in DOMAIN echo_patterns : echo_patterns[i] = pattern THEN 1 ELSE 0

RECURSIVE pattern_matches(_, _)
(* The vector the outer loop builds when it visits the nodes in order. *)
pattern_matches(order, pattern) ==
  IF order = <<>> THEN <<>>
  ELSE [i \in 1..pattern_pushes(nodes_[Head(order)].echo_patterns, pattern) |->
          Head(order)]
       \o pattern_matches(Tail(order), pattern)

find_nodes_by_echo_pattern(pattern) ==
  /\ Unlocked
  /\ UNCHANGED <<kernel_vars, thread_vars, persistence_, propagations, processor>>
  /\ \E order \in PushBackOrders(DOMAIN nodes_) :
       call' = Call("find_nodes_by_echo_pattern", pattern, "value",
                    pattern_matches(order, pattern), 1)
  /\ round_trip' = NoRoundTrip
  /\ UNCHANGED <<nodes_, edges_, persistence_nodes_, persistence_edges_,
                 substrate_mutex_, observe_calls>>

(* A propagate that notifies its subclass before it updates the levels. *)
nodes_at_hook_before_updates(entered, updated) == entered

(* The node table an override of on_activation_propagation finds: the call *)
(* is the last statement of propagate_activation, after the loop over the  *)
(* reachable nodes.                                                        *)
nodes_at_hook(entered, updated) == updated

(* The call record carries the calls of on_activation_propagation made     *)
(* during the call, each with its three arguments and the node table at    *)
(* that moment.                                                            *)
propagate_activation(source_id, initial_activation) ==
  /\ Unlocked
  /\ UNCHANGED <<kernel_vars, thread_vars, persistence_, processor>>
  /\ LET reachable == get_reachable_nodes(source_id, 2)
         targets == reachable \cap DOMAIN nodes_
         amount == propagated_activation(initial_activation)
         updated ==
           [n \in DOMAIN nodes_ |->
              LET level == IF n = source_id
                             THEN initial_activation
                             ELSE nodes_[n].activation_level
              IN  [nodes_[n] EXCEPT !.activation_level =
                     IF n \in targets THEN level + amount ELSE level]]
     IN  IF source_id \notin DOMAIN nodes_
           THEN /\ call' = Call("propagate_activation", source_id, "void",
                                [hook_calls |-> 0, targets |-> {},
                                 activation |-> initial_activation,
                                 hook |-> <<>>], 1)
                /\ UNCHANGED nodes_
           ELSE /\ nodes_' = updated
                /\ call' = Call("propagate_activation", source_id, "void",
                                [hook_calls |-> 1, targets |-> reachable,
                                 activation |-> initial_activation,
                                 hook |-> <<[source |-> source_id,
                                             targets |-> reachable,
                                             activation |-> initial_activation,
                                             nodes |-> nodes_at_hook(nodes_, updated)]>>], 1)
  /\ round_trip' = NoRoundTrip
  /\ UNCHANGED <<edges_, persistence_nodes_, persistence_edges_, substrate_mutex_, observe_calls>>

update_node_activation(id, activation) ==
  /\ Unlocked
  /\ UNCHANGED <<kernel_vars, thread_vars, persistence_, propagations, processor>>
  /\ nodes_' = IF id \in DOMAIN nodes_
                 THEN [nodes_ EXCEPT ![id].activation_level = activation]
                 ELSE nodes_
  /\ call' = Call("update_node_activation", id, "void", activation, 1)
  /\ round_trip' = NoRoundTrip
  /\ UNCHANGED <<edges_, persistence_nodes_, persistence_edges_, substrate_mutex_, observe_calls>>

get_node_activation(id) ==
  /\ Unlocked
  /\ UNCHANGED <<kernel_vars, thread_vars, persistence_, propagations, processor>>
  /\ call' = Call("get_node_activation", id, "value",
                  IF id \in DOMAIN nodes_ THEN nodes_[id].activation_level ELSE 0, 1)
  /\ round_trip' = NoRoundTrip
  /\ UNCHANGED <<nodes_, edges_, persistence_nodes_, persistence_edges_,
                 substrate_mutex_, observe_calls>>

(* The value calculate_clustering_coefficient computes when its inner      *)
(* get_connected_nodes calls return: neighbors is the sorted vector of     *)
(* connected(id), and a pair i < j counts when neighbors[j] is found in    *)
(* the connections of neighbors[i].                                        *)
clustering_value(id) ==
  LET neighbors == connected(id)
      size == Cardinality(neighbors)
      possible_edges == (size * (size - 1)) \div 2
      actual_edges ==
        Cardinality({ pair \in neighbors \X neighbors :
                        pair[1] < pair[2] /\ pair[2] \in connected(pair[1]) })
  IN  IF size < 2 THEN <<0, 1>> ELSE <<actual_edges, possible_edges>>

(* What a build may do when a thread locks a std::mutex it already owns    *)
(* (undefined behaviour): block forever, throw std::system_error           *)
(* (resource_deadlock_would_occur), or let the call through.               *)
RelockOutcomes == {"hang", "system_error", "proceed"}

(* calculate_clustering_coefficient takes substrate_mutex_ and then calls  *)
(* the public get_connected_nodes, which takes it again.                   *)
calculate_clustering_coefficient(id) ==
  /\ Unlocked
  /\ UNCHANGED <<kernel_vars, thread_vars, persistence_, propagations, processor>>
  /\ \E outcome \in RelockOutcomes :
       /\ call' = Call("calculate_clustering_coefficient", id,
                       IF outcome = "proceed" THEN "value" ELSE outcome,
                       IF outcome = "proceed" THEN clustering_value(id) ELSE NoValue,
                       2)
       /\ substrate_mutex_' = IF outcome = "hang" THEN "held" ELSE "free"
  /\ round_trip' = NoRoundTrip
  /\ UNCHANGED <<nodes_, edges_, persistence_nodes_, persistence_edges_,
                 observe_calls>>

(* A density that counts an edge once for every pair of its members. *)
substrate_density_by_member_pairs ==
  LET size == Cardinality(DOMAIN nodes_)
      possible_connections == (size * (size - 1)) \div 2
      RECURSIVE pairs(_)
      pairs(ids) ==
        IF ids = {} THEN 0
        ELSE LET e == CHOOSE e \in ids : TRUE
                 members == Cardinality(edges_[e].connected_nodes)
             IN  (members * (members - 1)) \div 2 + pairs(ids \ {e})
  IN  IF size < 2 THEN <<0, 1>> ELSE <<pairs(DOMAIN edges_), possible_connections>>

(* A density over the connections one node can have. *)
substrate_density_over_one_node ==
  LET size == Cardinality(DOMAIN nodes_)
  IN  IF size < 2 THEN <<0, 1>> ELSE <<Cardinality(DOMAIN edges_), size - 1>>

(* The ratio calculate_substrate_density returns: edges_.size() over       *)
(* nodes_.size() * (nodes_.size() - 1) / 2.                                *)
substrate_density ==
  LET size == Cardinality(DOMAIN nodes_)
      possible_connections == (size * (size - 1)) \div 2
  IN  IF size < 2 THEN <<0, 1>>
      ELSE <<Cardinality(DOMAIN edges_), possible_connections>>

calculate_substrate_density ==
  /\ Unlocked
  /\ UNCHANGED <<kernel_vars, thread_vars, persistence_, propagations, processor>>
  /\ call' = Call("calculate_substrate_density", 0, "value", substrate_density, 1)
  /\ round_trip' = NoRoundTrip
  /\ UNCHANGED <<nodes_, edges_, persistence_nodes_, persistence_edges_,
                 substrate_mutex_, observe_calls>>

(* A save_substrate that reports success whatever the saves returned. *)
save_substrate_result_ignored(failed) == "true"

(* What save_substrate returns: false from inside a loop when a save has   *)
(* failed, true after both loops.                                          *)
save_substrate_result(failed) == IF failed THEN "false" ELSE "true"

(* save_substrate walks nodes_ and then edges_ in the order of the         *)
(* unordered_map, which the build decides, and returns at the first save   *)
(* that fails: the records saved are those before it in that order.        *)
save_substrate ==
  /\ Unlocked
  /\ UNCHANGED <<kernel_vars, thread_vars, persistence_, propagations, processor>>
  /\ LET failing_nodes == (DOMAIN nodes_) \cap persistence_.failing_save_nodes
         failing_edges == (DOMAIN edges_) \cap persistence_.failing_save_edges
     IN  \E saved_nodes \in SUBSET ((DOMAIN nodes_) \ failing_nodes),
            saved_edges \in SUBSET ((DOMAIN edges_) \ failing_edges) :
           /\ failing_nodes = {} => saved_nodes = DOMAIN nodes_
           /\ failing_nodes # {} => saved_edges = {}
           /\ (failing_nodes = {} /\ failing_edges = {}) => saved_edges = DOMAIN edges_
           /\ persistence_nodes_' =
                [id \in (DOMAIN persistence_nodes_) \cup saved_nodes |->
                   IF id \in saved_nodes THEN nodes_[id] ELSE persistence_nodes_[id]]
           /\ persistence_edges_' =
                [id \in (DOMAIN persistence_edges_) \cup saved_edges |->
                   IF id \in saved_edges THEN edges_[id] ELSE persistence_edges_[id]]
           /\ call' = Call("save_substrate", 0,
                           save_substrate_result(failing_nodes # {} \/ failing_edges # {}),
                           [nodes |-> saved_nodes, edges |-> saved_edges], 1)
  /\ round_trip' = RoundTrip([stage |-> 1, nodes |-> nodes_, edges |-> edges_])
  /\ UNCHANGED <<nodes_, edges_, substrate_mutex_, observe_calls>>

(* A load_substrate that keeps the live record of an id it cannot load. *)
loaded_or_kept(live, store, failing) ==
  [id \in (DOMAIN store) \ (failing \ DOMAIN live) |->
     IF id \in failing THEN live[id] ELSE store[id]]

(* The table load_substrate rebuilds: empty, then one record for each id   *)
(* the strategy lists whose load succeeds.                                 *)
loaded(live, store, failing) ==
  [id \in (DOMAIN store) \ failing |-> store[id]]

load_substrate ==
  /\ Unlocked
  /\ UNCHANGED <<kernel_vars, thread_vars, persistence_, propagations, processor>>
  /\ nodes_' = loaded(nodes_, persistence_nodes_, persistence_.failing_load_nodes)
  /\ edges_' = loaded(edges_, persistence_edges_, persistence_.failing_load_edges)
  /\ call' = Call("load_substrate", 0, "true",
                  [nodes |-> (DOMAIN nodes_) \ DOMAIN nodes_',
                   edges |-> (DOMAIN edges_) \ DOMAIN edges_'], 1)
  /\ round_trip' = IF round_trip.stage = 2
                     THEN [round_trip EXCEPT !.stage = 3]
                     ELSE NoRoundTrip
  /\ UNCHANGED <<persistence_nodes_, persistence_edges_, substrate_mutex_, observe_calls>>

(* A clear that empties the store of whatever strategy is in use. *)
cleared_always(store) == EmptyMap

(* The strategy's store after clear_substrate: emptied when the            *)
(* dynamic_cast to MemorySubstratePersistence succeeds, left alone         *)
(* otherwise.                                                              *)
cleared(store) ==
  IF persistence_.type = "MemorySubstratePersistence" THEN EmptyMap ELSE store

clear_substrate ==
  /\ Unlocked
  /\ UNCHANGED <<kernel_vars, thread_vars, persistence_, propagations, processor>>
  /\ nodes_' = EmptyMap
  /\ edges_' = EmptyMap
  /\ persistence_nodes_' = cleared(persistence_nodes_)
  /\ persistence_edges_' = cleared(persistence_edges_)
  /\ call' = Call("clear_substrate", 0, "void", NoValue, 1)
  /\ round_trip' = IF round_trip.stage = 1
                     THEN [round_trip EXCEPT !.stage = 2]
                     ELSE NoRoundTrip
  /\ UNCHANGED <<substrate_mutex_, observe_calls>>

----------------------------------------------------------------------------
(* HypergraphSubstrate called from several threads.  A public call is the  *)
(* std::lock_guard on substrate_mutex_, the statements of its body one at  *)
(* a time, and the release of the guard on return or throw.                *)

(* The calls a thread makes: add_node and remove_node with a node id,      *)
(* add_edge with an edge id and its members.                               *)
ThreadCalls ==
  { [op |-> op, arg |-> [id |-> id, connected_nodes |-> {}]] :
      op \in {"add_node", "remove_node"}, id \in ThreadNodeIds }
  \cup
  { [op |-> "add_edge", arg |-> [id |-> id, connected_nodes |-> members]] :
      id \in ThreadEdgeIds, members \in SUBSET ThreadNodeIds }

(* The node add_node(id) is called with. *)
ThreadNode(id) ==
  HyperNode(id, CHOOSE p \in NodePayloads : p.label = "First", 0)

(* The thread at statement pc of its call of op. *)
At(t, op, pc) == threads[t].op = op /\ threads[t].pc = pc

(* The thread moves to statement pc. *)
Goto(t, pc) == threads' = [threads EXCEPT ![t].pc = pc]

(* The thread reaches the end of the body with result ret. *)
Return(t, ret) == threads' = [threads EXCEPT ![t].pc = "return", ![t].ret = ret]

(* A thread calls op(arg) and arrives at the lock_guard. *)
call_enter(t, c) ==
  /\ threads[t].pc = "idle"
  /\ threads' = [threads EXCEPT ![t] =
                   [IdleThread EXCEPT !.pc = "lock_guard", !.op = c.op, !.arg = c.arg]]
  /\ UNCHANGED <<substrate_vars, kernel_vars, kernel_threads,
                 persistence_, propagations, processor>>

(* A lock_guard that does not wait for the mutex. *)
lock_guard_no_wait(t) ==
  /\ threads[t].pc = "lock_guard"
  /\ substrate_mutex_' = "held"
  /\ threads' = [threads EXCEPT
                   ![t].pc = IF threads[t].op = "remove_node" THEN "collect" ELSE "find",
                   ![t].entered = <<nodes_, edges_, persistence_nodes_,
                                    persistence_edges_>>]
  /\ UNCHANGED <<nodes_, edges_, persistence_nodes_, persistence_edges_,
                 call, round_trip, observe_calls, kernel_vars, kernel_threads,
                 persistence_, propagations, processor>>

(* std::lock_guard<std::mutex> lock(substrate_mutex_): the thread waits    *)
(* until the mutex is free and takes it; entered records the tables it     *)
(* found.                                                                  *)
lock_guard(t) ==
  /\ threads[t].pc = "lock_guard"
  /\ Unlocked
  /\ substrate_mutex_' = "held"
  /\ threads' = [threads EXCEPT
                   ![t].pc = IF threads[t].op = "remove_node" THEN "collect" ELSE "find",
                   ![t].entered = <<nodes_, edges_, persistence_nodes_,
                                    persistence_edges_>>]
  /\ UNCHANGED <<nodes_, edges_, persistence_nodes_, persistence_edges_,
                 call, round_trip, observe_calls, kernel_vars, kernel_threads,
                 persistence_, propagations, processor>>

(* add_node: if (nodes_.find(node.id) != nodes_.end()) return false; *)
add_node_find(t) ==
  /\ At(t, "add_node", "find")
  /\ IF threads[t].arg.id \in DOMAIN nodes_ THEN Return(t, "false")
                                           ELSE Goto(t, "insert")
  /\ UNCHANGED <<substrate_vars, kernel_vars, kernel_threads,
                 persistence_, propagations, processor>>

(* add_node: nodes_[node.id] = node; *)
add_node_insert(t) ==
  /\ At(t, "add_node", "insert")
  /\ nodes_' = Put(nodes_, threads[t].arg.id, ThreadNode(threads[t].arg.id))
  /\ Goto(t, "save")
  /\ UNCHANGED <<edges_, persistence_nodes_, persistence_edges_, substrate_mutex_,
                 call, round_trip, observe_calls, kernel_vars, kernel_threads,
                 persistence_, propagations, processor>>

(* add_node: persistence_->save_node(node); return true; *)
add_node_save(t) ==
  /\ At(t, "add_node", "save")
  /\ persistence_nodes_' =
       persistence_save_node(persistence_nodes_, ThreadNode(threads[t].arg.id))
  /\ Return(t, "true")
  /\ UNCHANGED <<nodes_, edges_, persistence_edges_, substrate_mutex_,
                 call, round_trip, observe_calls, kernel_vars, kernel_threads,
                 persistence_, propagations, processor>>

(* remove_node: the loop that fills edges_to_remove. *)
remove_node_collect(t) ==
  /\ At(t, "remove_node", "collect")
  /\ threads' = [threads EXCEPT ![t].pc = "erase_edges",
                   ![t].edges_to_remove = edges_to_remove(threads[t].arg.id)]
  /\ UNCHANGED <<substrate_vars, kernel_vars, kernel_threads,
                 persistence_, propagations, processor>>

(* remove_node: the loop that erases each collected edge from edges_ and   *)
(* from the strategy.                                                      *)
remove_node_erase_edges(t) ==
  /\ At(t, "remove_node", "erase_edges")
  /\ edges_' = Erase(edges_, threads[t].edges_to_remove)
  /\ persistence_edges_' =
       persistence_remove(persistence_edges_, threads[t].edges_to_remove)
  /\ Goto(t, "erase_node")
  /\ UNCHANGED <<nodes_, persistence_nodes_, substrate_mutex_,
                 call, round_trip, observe_calls, kernel_vars, kernel_threads,
                 persistence_, propagations, processor>>

(* remove_node: removed = nodes_.erase(id) > 0; if (removed)               *)
(* persistence_->remove_node(id); return removed;                          *)
remove_node_erase(t) ==
  /\ At(t, "remove_node", "erase_node")
  /\ LET id == threads[t].arg.id
         removed == id \in DOMAIN nodes_
     IN  /\ nodes_' = Erase(nodes_, {id})
         /\ persistence_nodes_' =
              IF removed THEN persistence_remove(persistence_nodes_, {id})
                         ELSE persistence_nodes_
         /\ Return(t, IF removed THEN "true" ELSE "false")
  /\ UNCHANGED <<edges_, persistence_edges_, substrate_mutex_,
                 call, round_trip, observe_calls, kernel_vars, kernel_threads,
                 persistence_, propagations, processor>>

(* add_edge: if (edges_.find(edge.id) != edges_.end()) return false; *)
add_edge_find(t) ==
  /\ At(t, "add_edge", "find")
  /\ IF threads[t].arg.id \in DOMAIN edges_ THEN Return(t, "false")
                                           ELSE Goto(t, "validate")
  /\ UNCHANGED <<substrate_vars, kernel_vars, kernel_threads,
                 persistence_, propagations, processor>>

(* add_edge: validate_edge_consistency(edge); *)
add_edge_validate(t) ==
  /\ At(t, "add_edge", "validate")
  /\ IF validate_edge_consistency(threads[t].arg)
       THEN Goto(t, "insert")
       ELSE Return(t, "invalid_argument")
  /\ UNCHANGED <<substrate_vars, kernel_vars, kernel_threads,
                 persistence_, propagations, processor>>

(* add_edge: edges_[edge.id] = edge; *)
add_edge_insert(t) ==
  /\ At(t, "add_edge", "insert")
  /\ edges_' = Put(edges_, threads[t].arg.id,
                   HyperEdge(threads[t].arg.id, threads[t].arg.connected_nodes))
  /\ Goto(t, "save")
  /\ UNCHANGED <<nodes_, persistence_nodes_, persistence_edges_, substrate_mutex_,
                 call, round_trip, observe_calls, kernel_vars, kernel_threads,
                 persistence_, propagations, processor>>

(* add_edge: persistence_->save_edge(edge); return true; *)
add_edge_save(t) ==
  /\ At(t, "add_edge", "save")
  /\ persistence_edges_' =
       persistence_save_edge(persistence_edges_,
         HyperEdge(threads[t].arg.id, threads[t].arg.connected_nodes))
  /\ Return(t, "true")
  /\ UNCHANGED <<nodes_, edges_, persistence_nodes_, substrate_mutex_,
                 call, round_trip, observe_calls, kernel_vars, kernel_threads,
                 persistence_, propagations, processor>>

(* The guard goes out of scope: the mutex is released and the call returns *)
(* or throws to its caller.                                                *)
lock_guard_release(t) ==
  /\ threads[t].pc = "return"
  /\ substrate_mutex_' = "free"
  /\ call' = Call(threads[t].op, threads[t].arg.id, threads[t].ret, NoValue, 1)
  /\ round_trip' = NoRoundTrip
  /\ threads' = [threads EXCEPT ![t] = IdleThread]
  /\ UNCHANGED <<nodes_, edges_, persistence_nodes_, persistence_edges_,
                 observe_calls, kernel_vars, kernel_threads,
                 persistence_, propagations, processor>>

----------------------------------------------------------------------------
(* CognitiveKernel.  A text (std::string) is a sequence of one-character   *)
(* strings; Str gives the string stored in memory.                         *)

CognitiveStates == {"DORMANT", "AWAKENING", "PROCESSING", "LEARNING",
                    "REASONING", "CREATING", "REFLECTING"}

RECURSIVE Str(_)
Str(text) == IF text = <<>> THEN "" ELSE Head(text) \o Str(Tail(text))

(* input_data.find(pattern) != std::string::npos *)
Contains(text, pattern) ==
  \E i \in 1..(Len(text) - Len(pattern) + 1) :
    SubSeq(text, i, i + Len(pattern) - 1) = pattern

(* DeepTreeEcho(); cognitive_weight is in tenths. *)
NoIdentity == [identity_signature |-> <<>>, resonance_frequency |-> 0,
               echo_patterns |-> <<>>, cognitive_weight |-> 10]

Identities ==
  { [identity_signature |-> <<"a">>, resonance_frequency |-> 7,
     echo_patterns |-> << <<"a">>, <<"b">> >>, cognitive_weight |-> 10],
    [identity_signature |-> <<"b">>, resonance_frequency |-> 0,
     echo_patterns |-> << <<"b">> >>, cognitive_weight |-> 5],
    NoIdentity }

Signals == { <<>>, <<"a">>, <<"a", "b">> }

(* The identities and texts the callers of SpecResonance use: patterns     *)
(* "a" and "b", a pattern listed twice, an empty signature, a weight of    *)
(* 0.5; texts containing both patterns, one, and none.                     *)
ResonanceIdentities ==
  { [identity_signature |-> sig, resonance_frequency |-> 0,
     echo_patterns |-> patterns, cognitive_weight |-> weight] :
      sig \in { <<>>, <<"s">> },
      patterns \in { << <<"a">>, <<"b">> >>, << <<"a">>, <<"a">> >> },
      weight \in {5, 10} }

ResonanceTexts == { <<>>, <<"a", "b">>, <<"a">>, <<"c">> }
ResonanceHashedTexts == (ResonanceTexts \cup { <<"s">> }) \ { <<>> }

(* The texts calculate_resonance hashes: it returns before hashing when    *)
(* either text is empty.                                                   *)
HashedTexts ==
  (Signals \cup { i.identity_signature : i \in Identities }) \ { <<>> }
HashValues == 1..MaxHash

(* std::to_string(double): "%f", six decimals, of the ratio r. *)
DoubleToString(r) ==
  LET micro == (r[1] * 1000000 + (r[2] \div 2)) \div r[2]
      frac == micro % 1000000
      digit(k) == ToString((frac \div k) % 10)
  IN  ToString(micro \div 1000000) \o "." \o digit(100000) \o digit(10000)
        \o digit(1000) \o digit(100) \o digit(10) \o digit(1)

(* A pattern loop that boosts nothing. *)
pattern_influence_without_boost(patterns, input_data) == <<1, 1>>

RECURSIVE pattern_influence(_, _)
(* The loop over echo_patterns: <<6, 5>> is the factor 1.2. *)
pattern_influence(patterns, input_data) ==
  IF patterns = <<>> THEN <<1, 1>>
  ELSE LET rest == pattern_influence(Tail(patterns), input_data)
       IN  IF Contains(input_data, Head(patterns))
             THEN <<rest[1] * 6, rest[2] * 5>>
             ELSE rest

Abs(n) == IF n < 0 THEN -n ELSE n
Max(a, b) == IF a >= b THEN a ELSE b

calculate_resonance(input_data) ==
  IF input_data = <<>> \/ echo_identity_.identity_signature = <<>>
    THEN <<0, 1>>
    ELSE LET input_hash == hasher[input_data]
             identity_hash == hasher[echo_identity_.identity_signature]
             largest == Max(input_hash, identity_hash)
             \* 1 / (1 + |difference| / largest)
             base_resonance == <<largest, largest + Abs(input_hash - identity_hash)>>
             influence == pattern_influence(echo_identity_.echo_patterns, input_data)
         IN  <<base_resonance[1] * influence[1] * echo_identity_.cognitive_weight,
               base_resonance[2] * influence[2] * 10>>

(* A set_cognitive_state that notifies whether or not the state changed. *)
transition_always(old_state, new_state) == << <<old_state, new_state>> >>

(* The on_state_transition notifications one set_cognitive_state makes. *)
transition(old_state, new_state) ==
  IF old_state # new_state THEN << <<old_state, new_state>> >> ELSE <<>>

(* What a kernel call reports: the operation, the state before it, what    *)
(* the on_cognitive_process hook did ("none" when it was not run), how the *)
(* call completed ("ok" or "exception") and the transition hook            *)
(* notifications it made.                                                  *)
KCall(op, before, hook, ret, transitions) ==
  [op |-> op, before |-> before, hook |-> hook, ret |-> ret,
   transitions |-> transitions, arg |-> <<>>, val |-> NoValue]

(* What a const kernel call reports: its text argument and its value. *)
KQuery(op, arg, val) ==
  [KCall(op, current_state_, "none", "ok", <<>>) EXCEPT !.arg = arg, !.val = val]

NoKCall == KCall("none", "DORMANT", "none", "ok", <<>>)

(* A caller asks for the resonance of a text. *)
calculate_resonance_call(input_data) ==
  /\ kcall' = KQuery("calculate_resonance", input_data,
                     calculate_resonance(input_data))
  /\ UNCHANGED <<current_state_, memory_store_, echo_identity_,
                 process_counter_, hasher>>
  /\ UNCHANGED <<substrate_vars, thread_vars, persistence_, propagations, processor>>

(* CognitiveMemory, called on its own.  The keys and values callers use;   *)
(* a value may be the empty string.                                        *)
MemoryKeys == {"test_key", "other_key"}
MemoryValues == {"", "test_value", "other_value"}

(* A store that keeps the value a key already has. *)
store_if_absent(memory, key, value) ==
  IF key \in DOMAIN memory THEN memory ELSE Put(memory, key, value)

(* memory_store_[key] = value *)
store_value(memory, key, value) == Put(memory, key, value)

memory_store(key, value) ==
  /\ memory_store_' = store_value(memory_store_, key, value)
  /\ kcall' = KQuery("store", key, value)
  /\ UNCHANGED <<current_state_, echo_identity_, process_counter_, hasher>>
  /\ UNCHANGED <<substrate_vars, thread_vars, persistence_, propagations, processor>>

memory_retrieve(key) ==
  /\ kcall' = KQuery("retrieve", key,
                     IF key \in DOMAIN memory_store_ THEN memory_store_[key] ELSE "")
  /\ UNCHANGED <<current_state_, memory_store_, echo_identity_,
                 process_counter_, hasher>>
  /\ UNCHANGED <<substrate_vars, thread_vars, persistence_, propagations, processor>>

memory_exists(key) ==
  /\ kcall' = KQuery("exists", key, key \in DOMAIN memory_store_)
  /\ UNCHANGED <<current_state_, memory_store_, echo_identity_,
                 process_counter_, hasher>>
  /\ UNCHANGED <<substrate_vars, thread_vars, persistence_, propagations, processor>>

memory_clear ==
  /\ memory_store_' = EmptyMap
  /\ kcall' = KQuery("clear", <<>>, NoValue)
  /\ UNCHANGED <<current_state_, echo_identity_, process_counter_, hasher>>
  /\ UNCHANGED <<substrate_vars, thread_vars, persistence_, propagations, processor>>

memory_size ==
  /\ kcall' = KQuery("size", <<>>, Cardinality(DOMAIN memory_store_))
  /\ UNCHANGED <<current_state_, memory_store_, echo_identity_,
                 process_counter_, hasher>>
  /\ UNCHANGED <<substrate_vars, thread_vars, persistence_, propagations, processor>>

(* A pattern loop whose keys are counted from 1. *)
store_patterns_from_one(memory, patterns, i) ==
  [k \in (DOMAIN memory) \cup
          { "deep_tree_echo.pattern." \o ToString(j) : j \in i..Len(patterns) } |->
     IF \E j \in i..Len(patterns) : k = "deep_tree_echo.pattern." \o ToString(j)
       THEN Str(patterns[CHOOSE j \in i..Len(patterns) :
                           k = "deep_tree_echo.pattern." \o ToString(j)])
       ELSE memory[k]]

RECURSIVE store_patterns(_, _, _)
(* The loop storing deep_tree_echo.pattern.<i>, i counted from 0. *)
store_patterns(memory, patterns, i) ==
  IF i > Len(patterns) THEN memory
  ELSE store_patterns(
         Put(memory, "deep_tree_echo.pattern." \o ToString(i - 1), Str(patterns[i])),
         patterns, i + 1)

initialize(echo_identity) ==
  /\ echo_identity_' = echo_identity
  /\ current_state_' = "AWAKENING"
  /\ memory_store_' =
       LET m1 == Put(memory_store_, "deep_tree_echo.identity",
                     Str(echo_identity.identity_signature))
           m2 == Put(m1, "deep_tree_echo.frequency",
                     ToString(echo_identity.resonance_frequency))
           m3 == Put(m2, "deep_tree_echo.weight",
                     DoubleToString(<<echo_identity.cognitive_weight, 10>>))
       IN  store_patterns(m3, echo_identity.echo_patterns, 1)
  /\ kcall' = KCall("initialize", current_state_, "none", "ok",
                    transition(current_state_, "AWAKENING"))
  /\ UNCHANGED <<process_counter_, hasher>>
  /\ UNCHANGED <<substrate_vars, thread_vars, persistence_, propagations, processor>>

set_cognitive_state(new_state) ==
  /\ current_state_' = new_state
  /\ kcall' = KCall("set_cognitive_state", current_state_, "none", "ok",
                    transition(current_state_, new_state))
  /\ UNCHANGED <<memory_store_, echo_identity_, process_counter_, hasher>>
  /\ UNCHANGED <<substrate_vars, thread_vars, persistence_, propagations, processor>>

(* A catch block that rethrows without restoring the state. *)
state_left_processing(old_state) == "PROCESSING"

(* The catch block of process_cognitive_signal: set_cognitive_state(old_state). *)
state_after_catch(old_state) == old_state

(* A process_cognitive_signal that does not record last_resonance. *)
process_cognitive_signal_without_resonance(signal_data, hook) ==
  LET old_state == current_state_
      m1 == Put(memory_store_, "last_signal", Str(signal_data))
      m3 == Put(m1, "process_count", ToString(process_counter_ + 1))
      final_state == IF hook = "throws" THEN old_state ELSE "REFLECTING"
  IN  /\ memory_store_' = m3
      /\ process_counter_' = process_counter_ + 1
      /\ current_state_' = final_state
      /\ kcall' = KCall("process_cognitive_signal", old_state, hook,
                        IF hook = "throws" THEN "exception" ELSE "ok",
                        transition(old_state, "PROCESSING")
                          \o transition("PROCESSING", final_state))
      /\ UNCHANGED <<echo_identity_, hasher>>
      /\ UNCHANGED <<substrate_vars, thread_vars, persistence_, propagations, processor>>

(* A process_cognitive_signal that counts a call after its hook returned. *)
process_cognitive_signal_counted_late(signal_data, hook) ==
  LET old_state == current_state_
      resonance == calculate_resonance(signal_data)
      m1 == Put(memory_store_, "last_signal", Str(signal_data))
      m2 == Put(m1, "last_resonance", DoubleToString(resonance))
      m3 == Put(m2, "process_count", ToString(process_counter_ + 1))
      final_state == IF hook = "throws" THEN old_state ELSE "REFLECTING"
  IN  /\ memory_store_' = IF hook = "throws" THEN m2 ELSE m3
      /\ process_counter_' = IF hook = "throws" THEN process_counter_
                                                ELSE process_counter_ + 1
      /\ current_state_' = final_state
      /\ kcall' = KCall("process_cognitive_signal", old_state, hook,
                        IF hook = "throws" THEN "exception" ELSE "ok",
                        transition(old_state, "PROCESSING")
                          \o transition("PROCESSING", final_state))
      /\ UNCHANGED <<echo_identity_, hasher>>
      /\ UNCHANGED <<substrate_vars, thread_vars, persistence_, propagations, processor>>

(* hook is what on_cognitive_process does: "returns" or "throws". *)
process_cognitive_signal(signal_data, hook) ==
  LET old_state == current_state_
      resonance == calculate_resonance(signal_data)
      m1 == Put(memory_store_, "last_signal", Str(signal_data))
      m2 == Put(m1, "last_resonance", DoubleToString(resonance))
      m3 == Put(m2, "process_count", ToString(process_counter_ + 1))
      final_state == IF hook = "throws" THEN state_after_catch(old_state)
                                        ELSE "REFLECTING"
  IN  /\ memory_store_' = m3
      /\ process_counter_' = process_counter_ + 1
      /\ current_state_' = final_state
      /\ kcall' = KCall("process_cognitive_signal", old_state, hook,
                        IF hook = "throws" THEN "exception" ELSE "ok",
                        transition(old_state, "PROCESSING")
                          \o transition("PROCESSING", final_state))
      /\ UNCHANGED <<echo_identity_, hasher>>
      /\ UNCHANGED <<substrate_vars, thread_vars, persistence_, propagations, processor>>

----------------------------------------------------------------------------
(* process_cognitive_signal called from several threads.  The function     *)
(* takes no lock: current_state_ and process_counter_ are atomics, each    *)
(* CognitiveMemory::store locks memory_mutex_ for that one store, and the  *)
(* statements of different threads interleave freely.                      *)

(* The text every thread passes. *)
ThreadSignal == <<"a">>

KernelAt(k, pc) == kernel_threads[k].pc = pc

KernelGoto(k, pc) == kernel_threads' = [kernel_threads EXCEPT ![k].pc = pc]

(* auto old_state = current_state_.load(); *)
signal_load_state(k) ==
  /\ KernelAt(k, "idle")
  /\ kernel_threads' = [kernel_threads EXCEPT ![k].pc = "set_processing",
                          ![k].old_state = current_state_]
  /\ UNCHANGED <<substrate_vars, kernel_vars, threads, persistence_, propagations, processor>>

(* set_cognitive_state(CognitiveState::PROCESSING); *)
signal_set_processing(k) ==
  /\ KernelAt(k, "set_processing")
  /\ current_state_' = "PROCESSING"
  /\ KernelGoto(k, "store_signal")
  /\ UNCHANGED <<memory_store_, echo_identity_, process_counter_, hasher, kcall,
                 substrate_vars, threads, persistence_, propagations, processor>>

(* cognitive_memory_.store("last_signal", signal_data); *)
signal_store_signal(k) ==
  /\ KernelAt(k, "store_signal")
  /\ memory_store_' = Put(memory_store_, "last_signal", Str(ThreadSignal))
  /\ KernelGoto(k, "store_resonance")
  /\ UNCHANGED <<current_state_, echo_identity_, process_counter_, hasher, kcall,
                 substrate_vars, threads, persistence_, propagations, processor>>

(* cognitive_memory_.store("last_resonance", std::to_string(resonance)); *)
signal_store_resonance(k) ==
  /\ KernelAt(k, "store_resonance")
  /\ memory_store_' = Put(memory_store_, "last_resonance",
                          DoubleToString(calculate_resonance(ThreadSignal)))
  /\ KernelGoto(k, "fetch_add")
  /\ UNCHANGED <<current_state_, echo_identity_, process_counter_, hasher, kcall,
                 substrate_vars, threads, persistence_, propagations, processor>>

(* process_counter_.fetch_add(1) + 1, the argument of the store below. *)
signal_fetch_add(k) ==
  /\ KernelAt(k, "fetch_add")
  /\ process_counter_' = process_counter_ + 1
  /\ kernel_threads' = [kernel_threads EXCEPT ![k].pc = "store_count",
                          ![k].count = process_counter_ + 1]
  /\ UNCHANGED <<current_state_, memory_store_, echo_identity_, hasher, kcall,
                 substrate_vars, threads, persistence_, propagations, processor>>

(* cognitive_memory_.store("process_count", std::to_string(...)); *)
signal_store_count(k) ==
  /\ KernelAt(k, "store_count")
  /\ memory_store_' = Put(memory_store_, "process_count",
                          ToString(kernel_threads[k].count))
  /\ KernelGoto(k, "set_reflecting")
  /\ UNCHANGED <<current_state_, echo_identity_, process_counter_, hasher, kcall,
                 substrate_vars, threads, persistence_, propagations, processor>>

(* on_cognitive_process returns;                                           *)
(* set_cognitive_state(CognitiveState::REFLECTING); the call returns.      *)
signal_set_reflecting(k) ==
  /\ KernelAt(k, "set_reflecting")
  /\ current_state_' = "REFLECTING"
  /\ KernelGoto(k, "returned")
  /\ UNCHANGED <<memory_store_, echo_identity_, process_counter_, hasher, kcall,
                 substrate_vars, threads, persistence_, propagations, processor>>

----------------------------------------------------------------------------
(* CognitiveProcessor.  onTrigger runs on one thread of the framework; the *)
(* calls it makes on the kernel and on the substrate are the actions       *)
(* above, taken while the processor waits at the statement that makes      *)
(* them: the processor clears call and kcall when it arrives at a          *)
(* statement and reads in them what the call returned.                     *)

(* What a step of the processor leaves alone. *)
ProcessorFrame ==
  UNCHANGED <<nodes_, edges_, persistence_nodes_, persistence_edges_,
              substrate_mutex_, round_trip, observe_calls, current_state_,
              memory_store_, echo_identity_, process_counter_, hasher,
              thread_vars, persistence_, propagations>>

(* The processor is at statement pc and has not made its call yet. *)
Calling(pc) == processor.pc = pc /\ call.op = "none" /\ kcall.op = "none"

(* The processor moves on to statement pc. *)
Proceed(next) ==
  /\ processor' = next
  /\ call' = NoCall
  /\ kcall' = NoKCall
  /\ ProcessorFrame

(* The framework calls onTrigger. *)
onTrigger ==
  /\ processor.pc = "idle"
  /\ Proceed([processor EXCEPT !.pc = "set_processing", !.outcome = "none"])

(* onTrigger: cognitive_kernel_.set_cognitive_state(PROCESSING); then      *)
(* process_with_cognition(context, session, cognitive_kernel_);            *)
onTrigger_delegate ==
  /\ processor.pc = "set_processing"
  /\ kcall.op = "set_cognitive_state"
  /\ Proceed([processor EXCEPT !.pc = "process_with_cognition"])

(* process_with_cognition of some subclass returns. *)
process_with_cognition_returns ==
  /\ processor.pc = "process_with_cognition"
  /\ Proceed([processor EXCEPT !.pc = "set_reflecting"])

(* Where an exception thrown inside the try block of onTrigger takes the   *)
(* processor: into catch (const std::exception&) when its type derives     *)
(* from std::exception, out of onTrigger otherwise.                        *)
thrown(exception) ==
  IF exception = "std::exception" THEN "catch" ELSE "idle"

(* process_with_cognition of some subclass throws. *)
process_with_cognition_throws(exception) ==
  /\ processor.pc = "process_with_cognition"
  /\ Proceed([processor EXCEPT !.pc = thrown(exception),
                               !.outcome = IF thrown(exception) = "idle"
                                             THEN exception ELSE @])

(* onTrigger: cognitive_kernel_.set_cognitive_state(REFLECTING); and the   *)
(* return.                                                                 *)
onTrigger_return ==
  /\ processor.pc = "set_reflecting"
  /\ kcall.op = "set_cognitive_state"
  /\ Proceed([processor EXCEPT !.pc = "idle", !.outcome = "returned"])

(* onTrigger, in the catch block: set_cognitive_state(DORMANT); throw; *)
onTrigger_rethrow ==
  /\ processor.pc = "catch"
  /\ kcall.op = "set_cognitive_state"
  /\ Proceed([processor EXCEPT !.pc = "idle", !.outcome = "std::exception"])

----------------------------------------------------------------------------
(* HypergraphProcessor and HypergraphMapperProcessor *)

(* Node ids are numbers in the model: getName() + "_root" is 0, flow_id +  *)
(* "_content" is ten times the flow file's id, flow_id + "_attr_" +        *)
(* attr_name follows it, and "word_" + word is past a hundred.  The flow   *)
(* file's own id (its UUID) is the id itself, which none of them equals.   *)
root_node_id == 0
content_node_id(flow_id) == 10 * flow_id
attr_node_id(flow_id, attr_name) == 10 * flow_id + attr_name
WordNumber(word) == IF word = "a" THEN 1 ELSE 2
word_node_id(word) == 100 + WordNumber(word)

(* The processor's name is written a and its UUID b; the three literal     *)
(* echo patterns of CognitiveProcessor::initialize are written as the one  *)
(* pattern b.                                                              *)
ProcessorName == <<"a">>
ProcessorUuid == <<"b">>
ProcessorIdentity ==
  [identity_signature |-> ProcessorName,
   resonance_frequency |-> hasher[ProcessorUuid],
   echo_patterns |-> << <<"b">>, ProcessorName >>,
   cognitive_weight |-> 10]

(* node.echo_signature = get_cognitive_kernel().get_echo_identity() *)
echo_signature_patterns ==
  [i \in 1..Len(echo_identity_.echo_patterns) |->
     Str(echo_identity_.echo_patterns[i])]

processor_node ==
  HyperNode(root_node_id,
            [label |-> "Processor Root Node",
             attributes |-> [processor_type |-> "HypergraphProcessor",
                             processor_uuid |-> Str(ProcessorUuid)],
             echo_patterns |-> echo_signature_patterns], 0)

(* The tokenizer of create_content_node: every element of a text is one    *)
(* word of it, longer than three characters when written out.              *)
unique_words(content) == { content[i] : i \in 1..Len(content) }

(* content_hash is left out of the attributes: no statement reads it.      *)
content_node(flow_id, content) ==
  HyperNode(content_node_id(flow_id),
            [label |-> "FlowFile Content",
             attributes |-> [type |-> "content", flow_id |-> ToString(flow_id),
                             content_length |-> ToString(Len(content))],
             echo_patterns |-> echo_signature_patterns], 0)

word_node(word) ==
  HyperNode(word_node_id(word),
            [label |-> "Word: " \o word,
             attributes |-> [type |-> "word", word |-> word],
             echo_patterns |-> <<>>], 1)

(* The attribute's value is left out: no statement reads it. *)
attr_node(flow_id, attr_name) ==
  HyperNode(attr_node_id(flow_id, attr_name),
            [label |-> "Attribute: " \o ToString(attr_name),
             attributes |-> [type |-> "attribute", name |-> ToString(attr_name)],
             echo_patterns |-> <<>>], 2)

(* Edge ids are numbers too: the flow file's id, then the kind of the edge *)
(* ("_content_edge_" 1, "_attr_edge_" 2, "_attribute_cluster_" 3,          *)
(* "_similarity_" 4), then the counter or attribute name that ends the id. *)
edge_id(flow_id, kind, suffix) == 1000 * flow_id + 100 * kind + suffix

content_edge(p) ==
  [id |-> edge_id(p.flow_file, 1, p.edge_counter_),
   connected_nodes |-> p.locals.content_related_nodes,
   attributes |-> [type |-> "contains_words"], strength |-> 10]

attr_edge(p) ==
  [id |-> edge_id(p.flow_file, 2, p.locals.attr_name),
   connected_nodes |-> {content_node_id(p.flow_file),
                        attr_node_id(p.flow_file, p.locals.attr_name)},
   attributes |-> [type |-> "has_attribute",
                   attribute_name |-> ToString(p.locals.attr_name)],
   strength |-> 8]

attr_cluster_edge(p) ==
  [id |-> edge_id(p.flow_file, 3, p.edge_counter_),
   connected_nodes |-> p.locals.attribute_nodes \cup {content_node_id(p.flow_file)},
   attributes |-> [type |-> "attribute_cluster"], strength |-> 6]

similarity_edge(p) ==
  [id |-> edge_id(p.flow_file, 4, p.edge_counter_),
   connected_nodes |-> p.locals.similar_cluster,
   attributes |-> [type |-> "similarity", similarity_type |-> "content_overlap"],
   strength |-> 9]

(* The statements at which the processor calls add_node and add_edge, and  *)
(* the argument it passes at each; a loop passes any element it has not    *)
(* visited yet.                                                            *)
AddNodeStatements == {"add_root", "content_node", "word_node", "attr_node"}
AddEdgeStatements ==
  {"content_edge", "attr_edge", "attribute_cluster", "similarity_edge"}

nodes_to_add(p) ==
  CASE p.pc = "add_root" -> {processor_node}
    [] p.pc = "content_node" -> {content_node(p.flow_file, p.locals.content)}
    [] p.pc = "word_node" -> { word_node(w) : w \in p.locals.unique_words }
    [] p.pc = "attr_node" ->
         { attr_node(p.flow_file, a) : a \in p.locals.attributes }
    [] OTHER -> {}

edge_to_add(p) ==
  CASE p.pc = "content_edge" -> content_edge(p)
    [] p.pc = "attr_edge" -> attr_edge(p)
    [] p.pc = "attribute_cluster" -> attr_cluster_edge(p)
    [] OTHER -> similarity_edge(p)

(* session.transfer(flow_file, relationship), the last statement of every  *)
(* path through the try block and of the catch block.                      *)
transfer(p, relationship) ==
  [p EXCEPT !.transferred = Append(@, [flow_file |-> p.flow_file,
                                       relationship |-> relationship]),
            !.flow_file = 0,
            !.pc = "set_reflecting"]

(* The framework calls HypergraphProcessor::initialize, once, before it    *)
(* schedules the processor.                                                *)
HypergraphProcessor_initialize ==
  /\ processor.pc = "idle"
  /\ processor.outcome = "none"
  /\ root_node_id \notin DOMAIN nodes_
  /\ Proceed([processor EXCEPT !.pc = "initialize"])

(* CognitiveProcessor::initialize has initialized the kernel. *)
HypergraphProcessor_initialize_root ==
  /\ processor.pc = "initialize"
  /\ kcall.op = "initialize"
  /\ Proceed([processor EXCEPT !.pc = "add_root"])

(* substrate_.add_node(processor_node) has returned. *)
HypergraphProcessor_initialize_return ==
  /\ processor.pc = "add_root"
  /\ call.op = "add_node"
  /\ Proceed([processor EXCEPT !.pc = "idle"])

(* The upstream connection delivers the next flow file while the processor *)
(* is not running.                                                         *)
enqueue(flow_file) ==
  /\ processor.pc = "idle"
  /\ flow_file.id = 1 + Len(processor.transferred) + Cardinality(processor.queued)
  /\ Proceed([processor EXCEPT !.queued = @ \cup {flow_file}])

(* process_with_hypergraph: auto flow_file = session.get(); *)
process_with_hypergraph_get ==
  /\ Calling("process_with_cognition")
  /\ \E flow_file \in processor.queued :
       Proceed([processor EXCEPT
                  !.pc = "read",
                  !.flow_file = flow_file.id,
                  !.queued = @ \ {flow_file},
                  !.locals = [NoLocals EXCEPT
                                !.stream = flow_file.content,
                                !.attributes = flow_file.attributes]])

(* if (!flow_file) return; *)
process_with_hypergraph_return ==
  /\ Calling("process_with_cognition")
  /\ processor.queued = {}
  /\ Proceed([processor EXCEPT !.pc = "set_reflecting"])

(* session.read(flow_file, callback): the callback fills content, or the   *)
(* read throws and the catch block transfers the flow file to Mapped.      *)
session_read(outcome) ==
  /\ Calling("read")
  /\ Proceed(IF outcome = "read"
               THEN [processor EXCEPT !.pc = "process_cognitive_signal",
                                      !.locals.content = processor.locals.stream]
               ELSE transfer(processor, "mapped"))

(* kernel.process_cognitive_signal(content) has returned. *)
process_with_hypergraph_signalled ==
  /\ processor.pc = "process_cognitive_signal"
  /\ kcall.op = "process_cognitive_signal"
  /\ Proceed([processor EXCEPT !.pc = "content_node"])

(* create_content_node: the content node is added; the tokenizer runs. *)
create_content_node_words ==
  /\ processor.pc = "content_node"
  /\ call.op = "add_node"
  /\ Proceed([processor EXCEPT
                !.pc = "word_node",
                !.locals.unique_words = unique_words(processor.locals.content),
                !.locals.content_related_nodes =
                   {content_node_id(processor.flow_file)}])

(* One iteration of the loop over unique_words, after its add_node. *)
create_content_node_word ==
  /\ processor.pc = "word_node"
  /\ call.op = "add_node"
  /\ Proceed([processor EXCEPT
                !.locals.unique_words =
                   { w \in @ : word_node_id(w) # call.id },
                !.locals.content_related_nodes =
                   IF call.ret = "true" THEN @ \cup {call.id} ELSE @])

(* The loop over unique_words is over: if (content_related_nodes.size() >  *)
(* 1) the content edge is built.                                           *)
create_content_node_edge ==
  /\ Calling("word_node")
  /\ processor.locals.unique_words = {}
  /\ Proceed([processor EXCEPT
                !.pc = IF Cardinality(processor.locals.content_related_nodes) > 1
                         THEN "content_edge" ELSE "attr_node"])

(* substrate.add_edge(content_edge) has returned; edge_counter_ was        *)
(* incremented for its id.                                                 *)
create_content_node_return ==
  /\ processor.pc = "content_edge"
  /\ call.op = "add_edge"
  /\ Proceed([processor EXCEPT !.pc = "attr_node", !.edge_counter_ = @ + 1])

(* create_attribute_nodes, one iteration after its add_node:               *)
(* if (substrate.add_node(attr_node)) the edge to the content node is      *)
(* built.                                                                  *)
create_attribute_nodes_node ==
  /\ processor.pc = "attr_node"
  /\ call.op = "add_node"
  /\ LET attr_name ==
           CHOOSE a \in processor.locals.attributes :
             attr_node_id(processor.flow_file, a) = call.id
     IN  Proceed(IF call.ret = "true"
                   THEN [processor EXCEPT
                           !.pc = "attr_edge",
                           !.locals.attr_name = attr_name,
                           !.locals.attribute_nodes = @ \cup {call.id}]
                   ELSE [processor EXCEPT
                           !.locals.attributes = @ \ {attr_name}])

(* substrate.add_edge(attr_edge) has returned; the iteration ends. *)
create_attribute_nodes_edge ==
  /\ processor.pc = "attr_edge"
  /\ call.op = "add_edge"
  /\ Proceed([processor EXCEPT
                !.pc = "attr_node",
                !.locals.attributes = @ \ {processor.locals.attr_name}])

(* The loop over the attributes is over: if (attribute_nodes.size() > 1)   *)
(* the attribute cluster is built.                                         *)
create_attribute_nodes_cluster ==
  /\ Calling("attr_node")
  /\ processor.locals.attributes = {}
  /\ Proceed([processor EXCEPT
                !.pc = IF Cardinality(processor.locals.attribute_nodes) > 1
                         THEN "attribute_cluster" ELSE "propagate"])

(* substrate.add_edge(attr_cluster_edge) has returned. *)
create_attribute_nodes_return ==
  /\ processor.pc = "attribute_cluster"
  /\ call.op = "add_edge"
  /\ Proceed([processor EXCEPT !.pc = "propagate", !.edge_counter_ = @ + 1])

(* analyze_relationships, the similar_cluster the loop over               *)
(* find_nodes_by_attribute("type", "content") collects.                    *)
similar_cluster(main_node_id) ==
  {main_node_id} \cup
  { similar_node \in attribute_matches(nodes_, "type", "content") \ {main_node_id} :
      Cardinality(connected(main_node_id) \cap connected(similar_node)) >= 2 }

(* analyze_relationships after propagate_activation(main_node_id, 1.0):    *)
(* if (similar_cluster.size() > 1) the similarity edge is built; and after *)
(* the add_edge of that edge.                                              *)
analyze_relationships ==
  /\ processor.pc \in {"propagate", "similarity_edge"}
  /\ call.op \in {"propagate_activation", "add_edge"}
  /\ LET cluster == similar_cluster(content_node_id(processor.flow_file))
     IN  Proceed(IF processor.pc = "propagate" /\ Cardinality(cluster) > 1
                   THEN [processor EXCEPT !.pc = "similarity_edge",
                                          !.locals.similar_cluster = cluster]
                   ELSE IF processor.pc = "propagate"
                   THEN [processor EXCEPT !.pc = "clustering"]
                   ELSE [processor EXCEPT !.pc = "clustering",
                                          !.edge_counter_ = @ + 1])

(* add_hypergraph_attributes after                                         *)
(* substrate.calculate_clustering_coefficient(main_node_id): the call      *)
(* returned, or it threw std::system_error and the catch block transfers   *)
(* the flow file to Mapped.  A call that never returns leaves the          *)
(* processor where it is.                                                  *)
add_hypergraph_attributes ==
  /\ processor.pc = "clustering"
  /\ call.op = "calculate_clustering_coefficient"
  /\ call.ret # "hang"
  /\ Proceed(IF call.ret = "value"
               THEN [processor EXCEPT !.pc = "route"]
               ELSE transfer(processor, "mapped"))

(* The relationship process_with_hypergraph picks from clustering_coeff,   *)
(* a fraction, and connection_count. *)
route(clustering_coeff, connection_count) ==
  IF 2 * clustering_coeff[1] > clustering_coeff[2] /\ connection_count >= 3
    THEN "clustered"
  ELSE IF connection_count >= 2 THEN "enhanced"
  ELSE IF connection_count >= 1 THEN "mapped"
  ELSE "isolated"

(* process_with_hypergraph after                                           *)
(* substrate.calculate_clustering_coefficient(flow_node_id):               *)
(* connection_count = substrate.get_connected_nodes(flow_node_id).size()   *)
(* and the transfer; or the catch block.                                   *)
process_with_hypergraph_route ==
  /\ processor.pc = "route"
  /\ call.op = "calculate_clustering_coefficient"
  /\ call.ret # "hang"
  /\ Proceed(IF call.ret = "value"
               THEN transfer(processor,
                             route(call.val,
                                   Cardinality(connected(processor.flow_file))))
               ELSE transfer(processor, "mapped"))

----------------------------------------------------------------------------
(* Specifications *)

SubstrateInitWith(observing, strategies) ==
  /\ nodes_ = EmptyMap
  /\ edges_ = EmptyMap
  /\ persistence_nodes_ = EmptyMap
  /\ persistence_edges_ = EmptyMap
  /\ substrate_mutex_ = "free"
  /\ call = NoCall
  /\ round_trip = NoRoundTrip
  /\ observe_calls = observing
  /\ threads = [t \in Threads |-> IdleThread]
  /\ persistence_ \in strategies
  /\ propagations = NoPropagations
  /\ processor = IdleProcessor

(* HypergraphSubstrate(): the constructor makes a MemorySubstratePersistence. *)
SubstrateInit(observing) ==
  SubstrateInitWith(observing, {MemorySubstratePersistence})

KernelInit ==
  /\ current_state_ = "DORMANT"
  /\ memory_store_ = EmptyMap
  /\ echo_identity_ = NoIdentity
  /\ process_counter_ = 0
  /\ hasher = [t \in HashedTexts |-> 1]
  /\ kcall = NoKCall
  /\ kernel_threads = [k \in KernelThreads |-> IdleKernelThread]

(* Spec: every mutating substrate operation, from construction, with the   *)
(* default in-memory strategy.                                             *)
Init == SubstrateInit(FALSE) /\ KernelInit

FirstPayload == { p \in NodePayloads : p.label = "First" }

(* Callers stop propagating once a node would pass the cap. *)
WithinCap(cap) ==
  \A n \in DOMAIN nodes_' : nodes_'[n].activation_level <= cap

Next ==
  \/ \E node \in NodeInputs(NodeIds, FirstPayload, {0}) :
       add_node(node)
  \/ \E id \in NodeIds : remove_node(id)
  \/ \E node \in NodeInputs(NodeIds, FirstPayload, {0}) :
       update_node(node)
  \/ \E edge \in EdgeInputs(EdgeIds, NodeIds) : add_edge(edge)
  \/ \E id \in EdgeIds : remove_edge(id)
  \/ \E edge \in EdgeInputs(EdgeIds, NodeIds) : update_edge(edge)
  \/ \E id \in NodeIds :
       /\ propagate_activation(id, 10) /\ WithinCap(MaxActivation)
       /\ UNCHANGED propagations
  \/ \E id \in NodeIds : update_node_activation(id, 10)
  \/ save_substrate
  \/ load_substrate
  \/ clear_substrate

Spec == Init /\ [][Next]_vars

(* SpecCalls: the structural operations, with every call and its result    *)
(* recorded.                                                               *)
InitCalls == SubstrateInit(TRUE) /\ KernelInit

NextCalls ==
  \/ \E node \in NodeInputs(NodeIds, NodePayloads, {0}) : add_node(node)
  \/ \E id \in NodeIds : remove_node(id)
  \/ \E edge \in EdgeInputs(EdgeIds, NodeIds) : add_edge(edge)
  \/ \E id \in EdgeIds : remove_edge(id)
  \/ \E edge \in EdgeInputs(EdgeIds, NodeIds) : update_edge(edge)

SpecCalls == InitCalls /\ [][NextCalls]_vars

(* SpecPersistence: a caller builds a graph, changes it, and saves, clears *)
(* and loads it, with every call recorded.                                 *)
NextPersistence ==
  \/ \E node \in NodeInputs(NodeIds, NodePayloads, {0}) : add_node(node)
  \/ \E node \in NodeInputs(NodeIds, NodePayloads, {0}) : update_node(node)
  \/ \E edge \in EdgeInputs(EdgeIds, NodeIds) : add_edge(edge)
  \/ \E id \in NodeIds : update_node_activation(id, 10)
  \/ save_substrate
  \/ load_substrate
  \/ clear_substrate

SpecPersistence == InitCalls /\ [][NextPersistence]_vars

(* SpecAbsent: a caller addresses stored and absent ids with every         *)
(* operation that takes an id, with every call recorded.                   *)
NextAbsent ==
  \/ \E node \in NodeInputs(AbsentNodeIds, FirstPayload, {0}) : add_node(node)
  \/ \E id \in AbsentNodeIds : remove_node(id)
  \/ \E node \in NodeInputs(AbsentNodeIds, FirstPayload, {0}) : update_node(node)
  \/ \E id \in AbsentNodeIds : get_node(id)
  \/ \E edge \in EdgeInputs(AbsentEdgeIds, AbsentNodeIds) : add_edge(edge)
  \/ \E id \in AbsentEdgeIds : remove_edge(id)
  \/ \E edge \in EdgeInputs(AbsentEdgeIds, AbsentNodeIds) : update_edge(edge)
  \/ \E id \in AbsentEdgeIds : get_edge(id)
  \/ \E id \in AbsentNodeIds :
       /\ propagate_activation(id, 10) /\ WithinCap(MaxActivation)
       /\ UNCHANGED propagations
  \/ \E id \in AbsentNodeIds : update_node_activation(id, 10)
  \/ \E id \in AbsentNodeIds : get_node_activation(id)

SpecAbsent == InitCalls /\ [][NextAbsent]_vars

(* SpecThreads: threads call add_node, remove_node and add_edge on one     *)
(* substrate at the same time, statement by statement.                     *)
NextThreads ==
  \/ \E t \in Threads, c \in ThreadCalls : call_enter(t, c)
  \/ \E t \in Threads : lock_guard(t)
  \/ \E t \in Threads : add_node_find(t)
  \/ \E t \in Threads : add_node_insert(t)
  \/ \E t \in Threads : add_node_save(t)
  \/ \E t \in Threads : remove_node_collect(t)
  \/ \E t \in Threads : remove_node_erase_edges(t)
  \/ \E t \in Threads : remove_node_erase(t)
  \/ \E t \in Threads : add_edge_find(t)
  \/ \E t \in Threads : add_edge_validate(t)
  \/ \E t \in Threads : add_edge_insert(t)
  \/ \E t \in Threads : add_edge_save(t)
  \/ \E t \in Threads : lock_guard_release(t)

SpecThreads == InitCalls /\ [][NextThreads]_vars

(* SpecKernelThreads: a caller initializes one kernel, then each thread    *)
(* calls process_cognitive_signal once, all at the same time.              *)
NextKernelThreads ==
  \/ \E echo_identity \in Identities :
       /\ \A k \in KernelThreads : KernelAt(k, "idle")
       /\ initialize(echo_identity)
  \/ \E k \in KernelThreads : signal_load_state(k)
  \/ \E k \in KernelThreads : signal_set_processing(k)
  \/ \E k \in KernelThreads : signal_store_signal(k)
  \/ \E k \in KernelThreads : signal_store_resonance(k)
  \/ \E k \in KernelThreads : signal_fetch_add(k)
  \/ \E k \in KernelThreads : signal_store_count(k)
  \/ \E k \in KernelThreads : signal_set_reflecting(k)

SpecKernelThreads == Init /\ [][NextKernelThreads]_vars

(* SpecActivation: a caller builds a graph and drives activation through   *)
(* it, with every call recorded.                                           *)
NextActivation ==
  \/ \E node \in NodeInputs(PathNodeIds, FirstPayload, {0}) : add_node(node)
  \/ \E edge \in EdgeInputs(PathEdgeIds, PathNodeIds) : add_edge(edge)
  \/ \E id \in PathNodeIds, a \in {0, 10} :
       /\ propagate_activation(id, a) /\ WithinCap(PathActivation)
       /\ UNCHANGED propagations
  \/ \E id \in PathNodeIds : update_node_activation(id, 10)

SpecActivation == InitCalls /\ [][NextActivation]_vars

(* SpecMetrics: a caller builds a graph and queries it, with every call    *)
(* recorded.                                                               *)
NextMetrics ==
  \/ \E node \in NodeInputs(TriangleNodeIds, FirstPayload, {0}) : add_node(node)
  \/ \E edge \in EdgeInputs(TriangleEdgeIds, TriangleNodeIds) : add_edge(edge)
  \/ \E id \in TriangleNodeIds : get_connected_nodes(id)
  \/ \E id \in TriangleNodeIds : calculate_clustering_coefficient(id)

SpecMetrics == InitCalls /\ [][NextMetrics]_vars

(* SpecDensity: a caller builds a graph of edges with two or three members *)
(* and asks for its density, with every call recorded.                     *)
DensityEdgeInputs ==
  { edge \in EdgeInputs(DensityEdgeIds, DensityNodeIds) :
      Cardinality(edge.connected_nodes) \in {2, 3} }

NextDensity ==
  \/ \E node \in NodeInputs(DensityNodeIds, FirstPayload, {0}) : add_node(node)
  \/ \E edge \in DensityEdgeInputs : add_edge(edge)
  \/ calculate_substrate_density

SpecDensity == InitCalls /\ [][NextDensity]_vars

(* SpecSave: a substrate constructed with the default strategy or with a   *)
(* strategy of the caller whose saves of the first node and the first edge *)
(* may fail; the caller builds a graph, raises activations and saves, with *)
(* every call recorded.                                                    *)
InitSave ==
  /\ SubstrateInitWith(TRUE,
       {MemorySubstratePersistence} \cup SubstratePersistences({1}, {1}, {}, {}))
  /\ KernelInit

NextSave ==
  \/ \E node \in NodeInputs(StrategyNodeIds, FirstPayload, {0}) : add_node(node)
  \/ \E edge \in EdgeInputs(StrategyEdgeIds, StrategyNodeIds) : add_edge(edge)
  \/ \E id \in StrategyNodeIds : update_node_activation(id, 10)
  \/ save_substrate

SpecSave == InitSave /\ [][NextSave]_vars

(* SpecLoad: a substrate constructed with the default strategy or with a   *)
(* strategy of the caller whose saves of the first node and the first edge *)
(* and whose loads of the second node and the first edge may fail; the     *)
(* caller builds a graph and loads and clears it, with every call          *)
(* recorded.                                                               *)
InitLoad ==
  /\ SubstrateInitWith(TRUE,
       {MemorySubstratePersistence} \cup
       { p \in SubstratePersistences({1}, {1}, {2}, {1}) :
           /\ (p.failing_save_edges = {}) = (p.failing_save_nodes = {})
           /\ (p.failing_load_edges = {}) = (p.failing_load_nodes = {}) })
  /\ KernelInit

NextLoad ==
  \/ \E node \in NodeInputs(StrategyNodeIds, FirstPayload, {0}) : add_node(node)
  \/ \E edge \in EdgeInputs(StrategyEdgeIds, StrategyNodeIds) : add_edge(edge)
  \/ \E id \in StrategyNodeIds : update_node_activation(id, 10)
  \/ load_substrate
  \/ clear_substrate

SpecLoad == InitLoad /\ [][NextLoad]_vars

(* SpecLoadFailure: a substrate constructed with the default strategy or   *)
(* with a strategy of the caller that saves every record and whose load of *)
(* the second node may fail; the caller builds a graph, raises activations *)
(* and loads, with every call recorded.                                    *)
InitLoadFailure ==
  /\ SubstrateInitWith(TRUE,
       {MemorySubstratePersistence} \cup SubstratePersistences({}, {}, {2}, {}))
  /\ KernelInit

NextLoadFailure ==
  \/ \E node \in NodeInputs(StrategyNodeIds, FirstPayload, {0}) : add_node(node)
  \/ \E edge \in EdgeInputs(StrategyEdgeIds, StrategyNodeIds) : add_edge(edge)
  \/ \E id \in StrategyNodeIds : update_node_activation(id, 10)
  \/ load_substrate

SpecLoadFailure == InitLoadFailure /\ [][NextLoadFailure]_vars

(* SpecQueries: a caller builds a graph of edges with two or three members *)
(* and asks for the neighbours and the incident edges of stored and of     *)
(* absent ids, with every call recorded.                                   *)
QueryEdgeInputs ==
  { edge \in EdgeInputs(QueryEdgeIds, QueryNodeIds) :
      Cardinality(edge.connected_nodes) \in {2, 3} }

NextQueries ==
  \/ \E node \in NodeInputs(QueryNodeIds, FirstPayload, {0}) : add_node(node)
  \/ \E edge \in QueryEdgeInputs : add_edge(edge)
  \/ \E id \in QueryNodeIds : get_connected_nodes(id)
  \/ \E id \in QueryNodeIds : get_incident_edges(id)

SpecQueries == InitCalls /\ [][NextQueries]_vars

(* SpecResonance: a caller initializes one CognitiveKernel, or does not,   *)
(* and asks for the resonance of texts; the hash function is any function  *)
(* the build may have.                                                     *)
InitResonance ==
  /\ SubstrateInit(FALSE)
  /\ current_state_ = "DORMANT"
  /\ memory_store_ = EmptyMap
  /\ echo_identity_ = NoIdentity
  /\ process_counter_ = 0
  /\ hasher \in [ResonanceHashedTexts -> HashValues]
  /\ kcall = NoKCall
  /\ kernel_threads = [k \in KernelThreads |-> IdleKernelThread]

NextResonance ==
  \/ \E echo_identity \in ResonanceIdentities : initialize(echo_identity)
  \/ \E input_data \in ResonanceTexts : calculate_resonance_call(input_data)

SpecResonance == InitResonance /\ [][NextResonance]_vars

(* SpecMemory: a caller drives one CognitiveMemory, with every call and    *)
(* its result recorded.                                                    *)
NextMemory ==
  \/ \E key \in MemoryKeys, value \in MemoryValues : memory_store(key, value)
  \/ \E key \in MemoryKeys : memory_retrieve(key)
  \/ \E key \in MemoryKeys : memory_exists(key)
  \/ memory_clear
  \/ memory_size

SpecMemory == Init /\ [][NextMemory]_vars

(* SpecStrategy: a caller drives one MemorySubstratePersistence directly,  *)
(* saving records with activation 0 and 1.0, with every call recorded.     *)
NextStrategy ==
  \/ \E node \in NodeInputs(StrategyNodeIds, FirstPayload, {0, 10}) :
       strategy_save_node(node)
  \/ \E edge \in EdgeInputs(StrategyEdgeIds, StrategyNodeIds) :
       strategy_save_edge(edge)
  \/ \E id \in StrategyNodeIds : strategy_load("node", id)
  \/ \E id \in StrategyEdgeIds : strategy_load("edge", id)
  \/ \E id \in StrategyNodeIds : strategy_remove("node", id)
  \/ \E id \in StrategyEdgeIds : strategy_remove("edge", id)
  \/ \E kind \in {"node", "edge"} : strategy_get_all_ids(kind)

SpecStrategy == InitCalls /\ [][NextStrategy]_vars

(* SpecSearch: a caller stores nodes and edges with attributes and echo   *)
(* patterns and searches them, with every call recorded.                   *)
NextSearch ==
  \/ \E node \in NodeInputs(SearchNodeIds, SearchNodePayloads, {0}) : add_node(node)
  \/ \E edge \in SearchEdgeInputs(SearchEdgeIds) : add_edge(edge)
  \/ \E a \in SearchAttributes : find_nodes_by_attribute(a[1], a[2])
  \/ \E a \in SearchAttributes : find_edges_by_attribute(a[1], a[2])
  \/ \E pattern \in SearchPatterns : find_nodes_by_echo_pattern(pattern)

SpecSearch == InitCalls /\ [][NextSearch]_vars

(* SpecPropagate: a caller builds a graph of two-member edges along a      *)
(* chain of nodes, with a shortcut across its first three, adding nodes    *)
(* and edges in the order of their ids, and then propagates from the head  *)
(* of the chain again and again, with every call recorded.                 *)
PropagateEdgeInputs ==
  { edge \in EdgeInputs(PropagateEdgeIds, PropagateNodeIds) :
      \/ \E i \in PropagateNodeIds : edge.connected_nodes = {i, i + 1}
      \/ edge.connected_nodes = {1, 3} }

(* The caller counts the call it makes: one more of a run when it repeats  *)
(* the last call on tables with the same keys and edges, otherwise the     *)
(* first of a new run.                                                     *)
tally_propagation(source_id, initial_activation) ==
  propagations' =
    IF /\ propagations.count > 0
       /\ propagations.source = source_id
       /\ propagations.activation = initial_activation
       /\ propagations.edges = edges_
       /\ DOMAIN propagations.nodes = DOMAIN nodes_
      THEN [propagations EXCEPT !.count = @ + 1]
      ELSE [source |-> source_id, activation |-> initial_activation, count |-> 1,
            nodes |-> nodes_, edges |-> edges_]

NextPropagate ==
  \/ \E node \in NodeInputs(PropagateNodeIds, FirstPayload, {0}) :
       /\ add_node(node) /\ propagations.count = 0
       /\ node.id = Cardinality(DOMAIN nodes_) + 1
  \/ \E edge \in PropagateEdgeInputs :
       /\ add_edge(edge) /\ propagations.count = 0
       /\ edge.id = Cardinality(DOMAIN edges_) + 1
  \/ \E a \in {0, 10} :
       /\ propagate_activation(1, a) /\ WithinCap(PropagateActivation)
       /\ tally_propagation(1, a)
       /\ propagations'.count <= MaxPropagations

SpecPropagate == InitCalls /\ [][NextPropagate]_vars

(* SpecKernel: a caller drives one CognitiveKernel; the hash function is   *)
(* any function the build may have.                                        *)
InitKernel ==
  /\ SubstrateInit(FALSE)
  /\ current_state_ = "DORMANT"
  /\ memory_store_ = EmptyMap
  /\ echo_identity_ = NoIdentity
  /\ process_counter_ = 0
  /\ hasher \in [HashedTexts -> HashValues]
  /\ kcall = NoKCall
  /\ kernel_threads = [k \in KernelThreads |-> IdleKernelThread]

NextKernel ==
  \/ \E echo_identity \in Identities : initialize(echo_identity)
  \/ \E new_state \in CognitiveStates : set_cognitive_state(new_state)
  \/ \E signal_data \in Signals, hook \in {"returns", "throws"} :
       /\ process_counter_ < MaxProcessCount
       /\ process_cognitive_signal(signal_data, hook)

SpecKernel == InitKernel /\ [][NextKernel]_vars

(* SpecTrigger: the framework initializes a processor and triggers it      *)
(* again and again; process_with_cognition is that of any subclass: it may *)
(* pass a text to the kernel, and it returns or throws, an exception type  *)
(* derived from std::exception or another one.                             *)
Exceptions == {"std::exception", "other"}

NextTrigger ==
  \/ \E echo_identity \in Identities :
       /\ processor.pc = "idle" /\ processor.outcome = "none"
       /\ initialize(echo_identity)
  \/ onTrigger
  \/ Calling("set_processing") /\ set_cognitive_state("PROCESSING")
  \/ onTrigger_delegate
  \/ \E signal_data \in Signals, hook \in {"returns", "throws"} :
       /\ Calling("process_with_cognition")
       /\ process_counter_ < MaxProcessCount
       /\ process_cognitive_signal(signal_data, hook)
  \/ process_with_cognition_returns
  \/ \E exception \in Exceptions : process_with_cognition_throws(exception)
  \/ Calling("set_reflecting") /\ set_cognitive_state("REFLECTING")
  \/ onTrigger_return
  \/ Calling("catch") /\ set_cognitive_state("DORMANT")
  \/ onTrigger_rethrow

SpecTrigger == InitKernel /\ [][NextTrigger]_vars

(* SpecMapper: the framework initializes one HypergraphMapperProcessor,    *)
(* the upstream connection delivers flow files, and the framework triggers *)
(* the processor again and again on one thread, which keeps running.  The  *)
(* substrate records its calls, by which the processor's next statement    *)
(* reads what the call returned.                                           *)
FlowFileInputs ==
  { [id |-> id, content |-> content, attributes |-> FlowFileAttributeNames] :
      id \in FlowFileIds, content \in Signals }

InitMapper == SubstrateInitWith(TRUE, {MemorySubstratePersistence}) /\ KernelInit

NextMapper ==
  \/ HypergraphProcessor_initialize
  \/ Calling("initialize") /\ initialize(ProcessorIdentity)
  \/ HypergraphProcessor_initialize_root
  \/ HypergraphProcessor_initialize_return
  \/ \E flow_file \in FlowFileInputs :
       /\ root_node_id \in DOMAIN nodes_
       /\ enqueue(flow_file)
  \/ root_node_id \in DOMAIN nodes_ /\ onTrigger
  \/ Calling("set_processing") /\ set_cognitive_state("PROCESSING")
  \/ onTrigger_delegate
  \/ process_with_hypergraph_get
  \/ process_with_hypergraph_return
  \/ \E outcome \in {"read", "std::exception"} : session_read(outcome)
  \/ /\ Calling("process_cognitive_signal")
     /\ process_cognitive_signal(processor.locals.content, "returns")
  \/ process_with_hypergraph_signalled
  \/ \E node \in nodes_to_add(processor) :
       /\ processor.pc \in AddNodeStatements
       /\ Calling(processor.pc)
       /\ add_node(node)
  \/ create_content_node_words
  \/ create_content_node_word
  \/ create_content_node_edge
  \/ /\ processor.pc \in AddEdgeStatements
     /\ Calling(processor.pc)
     /\ add_edge(edge_to_add(processor))
  \/ create_content_node_return
  \/ create_attribute_nodes_node
  \/ create_attribute_nodes_edge
  \/ create_attribute_nodes_cluster
  \/ create_attribute_nodes_return
  \/ /\ Calling("propagate")
     /\ propagate_activation(content_node_id(processor.flow_file), 10)
     /\ UNCHANGED propagations
  \/ analyze_relationships
  \/ /\ Calling("clustering")
     /\ calculate_clustering_coefficient(content_node_id(processor.flow_file))
  \/ add_hypergraph_attributes
  \/ /\ Calling("route")
     /\ calculate_clustering_coefficient(processor.flow_file)
  \/ process_with_hypergraph_route
  \/ Calling("set_reflecting") /\ set_cognitive_state("REFLECTING")
  \/ onTrigger_return

SpecMapper == InitMapper /\ [][NextMapper]_vars /\ WF_vars(NextMapper)

----------------------------------------------------------------------------
(* Properties *)

StoreVars == <<nodes_, edges_, persistence_nodes_, persistence_edges_>>

MissingMember(edge) == ~(edge.connected_nodes \subseteq DOMAIN nodes_)

(* Two distinct nodes share a stored hyperedge. *)
Adjacent(u, v) ==
  /\ u # v
  /\ \E e \in DOMAIN edges_ : {u, v} \subseteq edges_[e].connected_nodes

KnownIds == (DOMAIN nodes_) \cup UNION { edges_[e].connected_nodes : e \in DOMAIN edges_ }

(* The nodes at hyperedge distance 1 or 2 from src. *)
WithinTwoHops(src) ==
  { n \in KnownIds \ {src} :
      Adjacent(src, n) \/ \E m \in KnownIds : Adjacent(src, m) /\ Adjacent(m, n) }

(* C1: in every reachable state of the substrate, each member of each     *)
(* stored edge is a key of the node table.                                 *)
C1_ReferentialIntegrity ==
  \A e \in DOMAIN edges_ : edges_[e].connected_nodes \subseteq DOMAIN nodes_

(* A two-member edge is stored and propagation has reached a node over it. *)
C1_Witness ==
  \E e \in DOMAIN edges_ :
    /\ Cardinality(edges_[e].connected_nodes) = 2
    /\ \E n \in edges_[e].connected_nodes :
         n \in DOMAIN nodes_ /\ nodes_[n].activation_level = 7

(* C2: remove_node of a stored id returns true, removes exactly the edges  *)
(* containing the id from the live table and from the strategy, removes    *)
(* the node, and leaves every other node and edge as it was.               *)
C2_RemoveNodeCascadesExactly ==
  [][ (call'.op = "remove_node" /\ call'.id \in DOMAIN nodes_) =>
        LET id == call'.id
            kept(store) == { e \in DOMAIN store : id \notin store[e].connected_nodes }
        IN  /\ call'.ret = "true"
            /\ DOMAIN edges_' = kept(edges_)
            /\ \A e \in kept(edges_) : edges_'[e] = edges_[e]
            /\ DOMAIN persistence_edges_' = kept(persistence_edges_)
            /\ \A e \in kept(persistence_edges_) :
                 persistence_edges_'[e] = persistence_edges_[e]
            /\ DOMAIN nodes_' = (DOMAIN nodes_) \ {id}
            /\ \A n \in DOMAIN nodes_' : nodes_'[n] = nodes_[n]
    ]_vars

(* A removal cascaded to some edge while another edge survived. *)
C2_Witness ==
  /\ call.op = "remove_node"
  /\ call.ret = "true"
  /\ call.val # {}
  /\ DOMAIN edges_ # {}

(* C3: add_edge with a new id and a member missing from the node table     *)
(* raises the referential-integrity error and changes no table or store:   *)
(* a step that does anything else is not such a call.                      *)
C3_InvalidAddEdgeChangesNothing ==
  [][ call'.op = "add_edge" =>
        \/ call'.ret = "invalid_argument" /\ UNCHANGED StoreVars
        \/ \A edge \in EdgeInputs({call'.id}, NodeIds) :
             ~(edge.id \notin DOMAIN edges_ /\ MissingMember(edge) /\ add_edge(edge))
    ]_vars

(* An add_edge was refused on a substrate that holds nodes and edges. *)
C3_Witness ==
  /\ call.op = "add_edge"
  /\ call.ret = "invalid_argument"
  /\ DOMAIN nodes_ # {}
  /\ DOMAIN edges_ # {}

(* C4: after save(); clear() both counts are 0, and after the load() that  *)
(* follows, node_count, edge_count and every node's attributes are those   *)
(* seen by save().                                                         *)
C4_RoundTripRestores ==
  /\ round_trip.stage = 2 => (DOMAIN nodes_ = {} /\ DOMAIN edges_ = {})
  /\ round_trip.stage = 3 =>
       /\ Cardinality(DOMAIN nodes_) = Cardinality(DOMAIN round_trip.nodes)
       /\ Cardinality(DOMAIN edges_) = Cardinality(DOMAIN round_trip.edges)
       /\ \A n \in DOMAIN round_trip.nodes :
            /\ n \in DOMAIN nodes_
            /\ nodes_[n].attributes = round_trip.nodes[n].attributes

(* C5: no public call locks substrate_mutex_ while its thread holds it.    *)
C5_LockTakenOncePerCall == call.locks <= 1

(* C6: calculate_clustering_coefficient returns a value for every id: 0    *)
(* with fewer than two neighbours, else closed pairs over C(neighbours, 2).*)
C6_ClusteringCoefficientValue ==
  call.op = "calculate_clustering_coefficient" =>
    /\ call.ret = "value"
    /\ LET neighbours == { n \in KnownIds : Adjacent(call.id, n) }
           size == Cardinality(neighbours)
           closed == Cardinality({ pair \in SUBSET neighbours :
                                     /\ Cardinality(pair) = 2
                                     /\ \E u, v \in pair : Adjacent(u, v) })
       IN  IF size < 2
             THEN call.val[1] = 0
             ELSE call.val[1] * ((size * (size - 1)) \div 2) = closed * call.val[2]

(* C7: add_node of an absent id returns true and grows the node table by   *)
(* one; add_node of a stored id returns false and changes nothing.         *)
C7_AddNodeInsertIfAbsent ==
  [][ call'.op = "add_node" =>
        IF call'.id \notin DOMAIN nodes_
          THEN /\ call'.ret = "true"
               /\ Cardinality(DOMAIN nodes_') = Cardinality(DOMAIN nodes_) + 1
          ELSE /\ call'.ret = "false"
               /\ UNCHANGED StoreVars
    ]_vars

(* A duplicate add_node was refused although it carried another label. *)
C7_Witness ==
  /\ call.op = "add_node"
  /\ call.ret = "false"
  /\ call.id \in DOMAIN nodes_
  /\ call.val.label # nodes_[call.id].label

(* C8 as stated: every add_edge or update_edge whose edge has a member     *)
(* missing from the node table raises the referential-integrity error.     *)
C8_AlwaysSignalled ==
  [][ call'.op \in {"add_edge", "update_edge"} =>
        \A edge \in EdgeInputs({call'.id}, NodeIds) :
          (MissingMember(edge) /\ (add_edge(edge) \/ update_edge(edge)))
            => call'.ret = "invalid_argument"
    ]_vars

(* C8 amended: the error is raised when the edge id passes the existence   *)
(* check (new for add_edge, stored for update_edge) and a member is        *)
(* missing; when the id does not pass, the call returns false whatever the *)
(* members are.  A step with another result is not such a call.            *)
C8_SignalledAfterExistenceCheck ==
  [][ call'.op \in {"add_edge", "update_edge"} =>
        LET stored == call'.id \in DOMAIN edges_
            checked == IF call'.op = "add_edge" THEN ~stored ELSE stored
            called(edge) == IF call'.op = "add_edge" THEN add_edge(edge)
                                                    ELSE update_edge(edge)
        IN  /\ \/ call'.ret = "invalid_argument"
               \/ \A edge \in EdgeInputs({call'.id}, NodeIds) :
                    ~(checked /\ MissingMember(edge) /\ called(edge))
            /\ \/ call'.ret = "false"
               \/ \A edge \in EdgeInputs({call'.id}, NodeIds) :
                    ~(~checked /\ called(edge))
    ]_vars

(* An update_edge of a stored edge was refused for a missing member. *)
C8_Witness ==
  /\ call.op = "update_edge"
  /\ call.ret = "invalid_argument"
  /\ call.id \in DOMAIN edges_

(* C9: propagate(source, a) with a > 0 on a stored source leaves the       *)
(* source at exactly a, strictly raises every node at distance 1 or 2, and *)
(* leaves every other node's activation as it was.                         *)
C9_PropagateReachesTwoHops ==
  [][ ( /\ call'.op = "propagate_activation"
        /\ call'.id \in DOMAIN nodes_
        /\ call'.val.activation > 0 ) =>
        LET src == call'.id
        IN  /\ DOMAIN nodes_' = DOMAIN nodes_
            /\ nodes_'[src].activation_level = call'.val.activation
            /\ \A n \in (DOMAIN nodes_) \ {src} :
                 IF n \in WithinTwoHops(src)
                   THEN nodes_'[n].activation_level > nodes_[n].activation_level
                   ELSE nodes_'[n].activation_level = nodes_[n].activation_level
    ]_vars

(* A propagation with a > 0 reached a node exactly two hops away, over a   *)
(* neighbour whose edge leads back to the source.                          *)
C9_Witness ==
  /\ call.op = "propagate_activation"
  /\ call.id \in DOMAIN nodes_
  /\ call.val.activation = 10
  /\ nodes_[call.id].activation_level = 10
  /\ \E n \in DOMAIN nodes_ :
       /\ n \in WithinTwoHops(call.id)
       /\ ~Adjacent(call.id, n)
       /\ nodes_[n].activation_level = 7

(* C10: when on_cognitive_process throws inside process_cognitive_signal   *)
(* the call ends with the exception and the state is the pre-call state.   *)
C10_FailedSignalRestoresState ==
  (kcall.op = "process_cognitive_signal" /\ kcall.hook = "throws") =>
    (kcall.ret = "exception" /\ current_state_ = kcall.before)

(* A signal failed on a kernel that was in AWAKENING. *)
C10_Witness ==
  /\ kcall.op = "process_cognitive_signal"
  /\ kcall.hook = "throws"
  /\ kcall.before = "AWAKENING"
  /\ current_state_ = "AWAKENING"

(* C11 as stated: after a process_cognitive_signal call that failed, the   *)
(* kernel is never in PROCESSING, whatever state it was called in.         *)
C11_FailedSignalNeverProcessing ==
  (kcall.op = "process_cognitive_signal" /\ kcall.ret = "exception")
    => current_state_ # "PROCESSING"

(* C12: a process_cognitive_signal(text) whose hook returns notifies the   *)
(* move into PROCESSING (when that is a change) and then the move from     *)
(* PROCESSING to REFLECTING, ends in REFLECTING, and leaves last_signal =  *)
(* text, last_resonance = to_string(calculate_resonance(text)) and a       *)
(* process_count entry in memory.                                          *)
C12_SuccessfulSignalReflects ==
  [][ \A signal_data \in { t \in Signals : kcall'.hook = "returns" } :
        process_cognitive_signal(signal_data, "returns") =>
          /\ current_state_' = "REFLECTING"
          /\ kcall'.transitions =
               (IF current_state_ = "PROCESSING" THEN <<>>
                ELSE << <<current_state_, "PROCESSING">> >>)
               \o << <<"PROCESSING", "REFLECTING">> >>
          /\ {"last_signal", "last_resonance", "process_count"}
               \subseteq DOMAIN memory_store_'
          /\ memory_store_'["last_signal"] = Str(signal_data)
          /\ memory_store_'["last_resonance"] =
               DoubleToString(calculate_resonance(signal_data))
    ]_vars

(* A signal matching both patterns was processed by an initialized kernel  *)
(* and its resonance, above 1, was recorded.                               *)
C12_Witness ==
  /\ kcall.op = "process_cognitive_signal"
  /\ kcall.ret = "ok"
  /\ current_state_ = "REFLECTING"
  /\ "last_resonance" \in DOMAIN memory_store_
  /\ memory_store_["last_signal"] = "ab"
  /\ memory_store_["last_resonance"] = "1.440000"

(* C13: a new kernel is DORMANT with empty memory; initialize(identity)    *)
(* stores the identity, ends in AWAKENING and leaves in memory the         *)
(* signature, the frequency, the weight and pattern i under                *)
(* deep_tree_echo.pattern.<i>, i counted from 0.                           *)
C13_InitializeSeedsMemory ==
  /\ (current_state_ = "DORMANT" /\ memory_store_ = EmptyMap)
  /\ [][ \A identity \in { i \in Identities : kcall'.op = "initialize" } :
           initialize(identity) =>
             /\ echo_identity_' = identity
             /\ current_state_' = "AWAKENING"
             /\ { "deep_tree_echo.identity", "deep_tree_echo.frequency",
                  "deep_tree_echo.weight" } \subseteq DOMAIN memory_store_'
             /\ memory_store_'["deep_tree_echo.identity"] =
                  Str(identity.identity_signature)
             /\ memory_store_'["deep_tree_echo.frequency"] =
                  ToString(identity.resonance_frequency)
             /\ memory_store_'["deep_tree_echo.weight"] =
                  DoubleToString(<<identity.cognitive_weight, 10>>)
             /\ \A i \in 1..Len(identity.echo_patterns) :
                  LET key == "deep_tree_echo.pattern." \o ToString(i - 1)
                  IN  /\ key \in DOMAIN memory_store_'
                      /\ memory_store_'[key] = Str(identity.echo_patterns[i])
       ]_vars

(* A kernel was initialized with an identity of two patterns. *)
C13_Witness ==
  /\ kcall.op = "initialize"
  /\ Len(echo_identity_.echo_patterns) = 2
  /\ "deep_tree_echo.pattern.1" \in DOMAIN memory_store_
  /\ memory_store_["deep_tree_echo.pattern.1"] = "b"

(* The notifications a call makes when the state takes the values of path  *)
(* one after the other: one for each consecutive pair that differs.        *)
Changes(path) ==
  SelectSeq([i \in 1..(Len(path) - 1) |-> <<path[i], path[i + 1]>>],
            LAMBDA pair : pair[1] # pair[2])

(* C14: set_cognitive_state(s) from any state leaves the state at s, and   *)
(* on_state_transition is called once for every set_cognitive_state that   *)
(* changes the state and never otherwise, the calls made inside initialize *)
(* and process_cognitive_signal included.                                  *)
C14_TransitionHookOnChangeOnly ==
  [][ /\ \A new_state \in { c \in CognitiveStates : c = current_state_' } :
           set_cognitive_state(new_state) =>
             /\ current_state_' = new_state
             /\ kcall'.transitions = Changes(<<current_state_, new_state>>)
      /\ kcall'.op = "initialize" =>
           kcall'.transitions = Changes(<<current_state_, "AWAKENING">>)
      /\ kcall'.op = "process_cognitive_signal" =>
           kcall'.transitions =
             Changes(<<current_state_, "PROCESSING", current_state_'>>)
      /\ \A i \in 1..Len(kcall'.transitions) :
           kcall'.transitions[i][1] # kcall'.transitions[i][2]
    ]_vars

(* set_cognitive_state was called with the state the kernel was already    *)
(* in, after calls that did change it, and made no notification.           *)
C14_Witness ==
  /\ kcall.op = "set_cognitive_state"
  /\ kcall.before = current_state_
  /\ current_state_ = "LEARNING"
  /\ kcall.transitions = <<>>

(* C15 as stated: a load() at any point leaves the live node and edge      *)
(* tables, every node's activation included, as they were before it.       *)
C15_LoadReconstructsTables ==
  [][ call'.op = "load_substrate" => (nodes_' = nodes_ /\ edges_' = edges_) ]_vars

(* C16 as stated: only propagate_activation and update_node_activation     *)
(* change the activation of a node that stays stored.                      *)
C16_ActivationFrame ==
  [][ call'.op \notin {"propagate_activation", "update_node_activation"} =>
        \A n \in (DOMAIN nodes_) \cap (DOMAIN nodes_') :
          nodes_'[n].activation_level = nodes_[n].activation_level
    ]_vars

C18_UpdateEdgeCases ==
  [][ call'.op = "update_edge" =>
        LET id == call'.id
            replaced(store, after, edge) ==
              /\ DOMAIN after = DOMAIN store
              /\ after[id] = edge
              /\ \A e \in (DOMAIN store) \ {id} : after[e] = store[e]
        IN  \A edge \in EdgeInputs({id}, NodeIds) :
              \/ IF id \notin DOMAIN edges_
                   THEN call'.ret = "false" /\ UNCHANGED StoreVars
                   ELSE IF MissingMember(edge)
                   THEN call'.ret = "invalid_argument" /\ UNCHANGED StoreVars
                   ELSE /\ call'.ret = "true"
                        /\ replaced(edges_, edges_', edge)
                        /\ replaced(persistence_edges_, persistence_edges_', edge)
                        /\ UNCHANGED <<nodes_, persistence_nodes_>>
              \/ ~update_edge(edge)
    ]_vars

(* A stored edge was replaced by a one-member edge on a substrate of two   *)
(* nodes, and the strategy holds the replacement.                          *)
C18_Witness ==
  /\ call.op = "update_edge"
  /\ call.ret = "true"
  /\ Cardinality(DOMAIN nodes_) = 2
  /\ Cardinality(edges_[call.id].connected_nodes) = 1
  /\ persistence_edges_[call.id] = edges_[call.id]

(* What op(arg), run alone on the tables entered, returns and leaves. *)
SerialOutcome(op, arg, entered) ==
  LET nodes == entered[1]
      edges == entered[2]
      saved_nodes == entered[3]
      saved_edges == entered[4]
      doomed(store) ==
        { e \in DOMAIN store : arg.id \in store[e].connected_nodes }
  IN  IF op = "add_node" THEN
        IF arg.id \in DOMAIN nodes
          THEN [ret |-> "false", stores |-> entered]
          ELSE [ret |-> "true",
                stores |-> <<Put(nodes, arg.id, ThreadNode(arg.id)), edges,
                             Put(saved_nodes, arg.id, ThreadNode(arg.id)),
                             saved_edges>>]
      ELSE IF op = "remove_node" THEN
        [ret |-> IF arg.id \in DOMAIN nodes THEN "true" ELSE "false",
         stores |-> <<Erase(nodes, {arg.id}), Erase(edges, doomed(edges)),
                      Erase(saved_nodes, {arg.id}),
                      Erase(saved_edges, doomed(edges))>>]
      ELSE
        IF arg.id \in DOMAIN edges
          THEN [ret |-> "false", stores |-> entered]
        ELSE IF ~(arg.connected_nodes \subseteq DOMAIN nodes)
          THEN [ret |-> "invalid_argument", stores |-> entered]
        ELSE [ret |-> "true",
              stores |-> <<nodes, Put(edges, arg.id,
                                      HyperEdge(arg.id, arg.connected_nodes)),
                           saved_nodes,
                           Put(saved_edges, arg.id,
                               HyperEdge(arg.id, arg.connected_nodes))>>]

C20_ConcurrentSignalsCounted ==
  (\A k \in KernelThreads : KernelAt(k, "returned")) =>
    /\ current_state_ = "REFLECTING"
    /\ "process_count" \in DOMAIN memory_store_
    /\ memory_store_["process_count"] = ToString(Cardinality(KernelThreads))

(* C21: calculate_substrate_density returns 0.0 while fewer than two nodes *)
(* are stored and otherwise the number of stored edges, each counted once  *)
(* whatever its members, over node_count * (node_count - 1) / 2; for three *)
(* nodes joined pairwise by three edges that is 1.0.                       *)
C21_DensityValue ==
  call.op = "calculate_substrate_density" =>
    LET node_count == Cardinality(DOMAIN nodes_)
        edge_count == Cardinality(DOMAIN edges_)
        triangle ==
          /\ node_count = 3
          /\ { edges_[e].connected_nodes : e \in DOMAIN edges_ } =
               { m \in SUBSET DOMAIN nodes_ : Cardinality(m) = 2 }
          /\ edge_count = 3
    IN  /\ call.ret = "value"
        /\ call.val[2] > 0
        /\ node_count < 2 => call.val[1] = 0
        /\ node_count >= 2 =>
             call.val[1] * ((node_count * (node_count - 1)) \div 2) =
               edge_count * call.val[2]
        /\ triangle => call.val[1] = call.val[2]

(* The density of the three-node triangle has been returned. *)
C21_Witness ==
  /\ call.op = "calculate_substrate_density"
  /\ Cardinality(DOMAIN nodes_) = 3
  /\ Cardinality(DOMAIN edges_) = 3
  /\ \A e \in DOMAIN edges_ : Cardinality(edges_[e].connected_nodes) = 2
  /\ Cardinality({ edges_[e].connected_nodes : e \in DOMAIN edges_ }) = 3


C23_LoadReplacesLiveTables ==
  [][ call'.op = "load_substrate" =>
        LET listed_nodes == DOMAIN persistence_nodes_
            listed_edges == DOMAIN persistence_edges_
        IN  /\ call'.ret = "true"
            /\ DOMAIN nodes_' = listed_nodes \ persistence_.failing_load_nodes
            /\ \A id \in DOMAIN nodes_' : nodes_'[id] = persistence_nodes_[id]
            /\ DOMAIN edges_' = listed_edges \ persistence_.failing_load_edges
            /\ \A id \in DOMAIN edges_' : edges_'[id] = persistence_edges_[id]
            /\ UNCHANGED <<persistence_nodes_, persistence_edges_>>
    ]_vars

(* A load has dropped a node that was only in the live table and skipped   *)
(* a listed node whose load fails.                                         *)
C23_Witness ==
  /\ call.op = "load_substrate"
  /\ \E id \in call.val.nodes : id \notin DOMAIN persistence_nodes_
  /\ \E id \in DOMAIN persistence_nodes_ :
       id \in persistence_.failing_load_nodes /\ id \notin DOMAIN nodes_


(* C24: clear_substrate empties the live node and edge tables; it empties  *)
(* the strategy's stores too when the strategy is the                      *)
(* MemorySubstratePersistence, and leaves the stores of any other strategy *)
(* as they were.                                                           *)
C24_ClearFrame ==
  [][ call'.op = "clear_substrate" =>
        /\ nodes_' = EmptyMap
        /\ edges_' = EmptyMap
        /\ IF persistence_.type = "MemorySubstratePersistence"
             THEN persistence_nodes_' = EmptyMap /\ persistence_edges_' = EmptyMap
             ELSE UNCHANGED <<persistence_nodes_, persistence_edges_>>
    ]_vars

(* A clear has emptied the live tables of a substrate whose strategy is    *)
(* not the in-memory one, and the strategy still holds a node and an edge. *)
C24_Witness ==
  /\ call.op = "clear_substrate"
  /\ persistence_.type # "MemorySubstratePersistence"
  /\ nodes_ = EmptyMap /\ edges_ = EmptyMap
  /\ persistence_nodes_ # EmptyMap
  /\ persistence_edges_ # EmptyMap


(* The elements of a vector, and whether no element occurs twice. *)
Elements(v) == { v[i] : i \in DOMAIN v }
NoDuplicates(v) == \A i, j \in DOMAIN v : i # j => v[i] # v[j]

(* C25: get_connected_nodes(id) returns, each once and never id itself,    *)
(* exactly the ids other than id that share a stored edge with id, and     *)
(* get_incident_edges(id) returns, each once, exactly the stored edge ids  *)
(* whose members contain id; both are empty for an id in no edge.          *)
C25_ConnectedAndIncident ==
  LET id == call.id
      in_no_edge == \A e \in DOMAIN edges_ : id \notin edges_[e].connected_nodes
  IN  /\ call.op = "get_connected_nodes" =>
           /\ Elements(call.val) = { n \in KnownIds : Adjacent(id, n) }
           /\ NoDuplicates(call.val)
           /\ id \notin Elements(call.val)
           /\ in_no_edge => call.val = <<>>
      /\ call.op = "get_incident_edges" =>
           /\ Elements(call.val) =
                { e \in DOMAIN edges_ : id \in edges_[e].connected_nodes }
           /\ NoDuplicates(call.val)
           /\ in_no_edge => call.val = <<>>

(* The queried node lies in an edge of two and an edge of three members    *)
(* that overlap, and the two neighbours have been returned once each.      *)
C25_Witness ==
  /\ call.op = "get_connected_nodes"
  /\ Len(call.val) = 2
  /\ \E e, f \in DOMAIN edges_ :
       /\ Cardinality(edges_[e].connected_nodes) = 2
       /\ Cardinality(edges_[f].connected_nodes) = 3
       /\ call.id \in edges_[e].connected_nodes


(* r > s and r = s for ratios with positive denominators. *)
Greater(r, s) == r[1] * s[2] > s[1] * r[2]
SameRatio(r, s) == r[1] * s[2] = s[1] * r[2]

(* How many of the stored identity's patterns, by position in the list,    *)
(* occur in the text, and how many different ones.                         *)
MatchingPatterns(text) ==
  Cardinality({ i \in DOMAIN echo_identity_.echo_patterns :
                  Contains(text, echo_identity_.echo_patterns[i]) })
DistinctMatchingPatterns(text) ==
  Cardinality({ echo_identity_.echo_patterns[i] :
                  i \in { i \in DOMAIN echo_identity_.echo_patterns :
                            Contains(text, echo_identity_.echo_patterns[i]) } })

(* |hash(text) - hash(signature)| / max of the two, as a ratio. *)
HashDistance(text) ==
  LET h == hasher[text]
      g == hasher[echo_identity_.identity_signature]
  IN  <<Abs(h - g), Max(h, g)>>

RECURSIVE Power(_, _)
Power(b, k) == IF k = 0 THEN 1 ELSE b * Power(b, k - 1)

(* C27 as stated: calculate_resonance returns 0.0 for an empty text or an  *)
(* empty stored signature, also on a kernel never initialized, and         *)
(* otherwise base * 1.2^k * weight, with k the number of distinct identity *)
(* patterns occurring in the text and base 1 / (1 + the hash distance).    *)
C27_ResonanceFormula ==
  kcall.op = "calculate_resonance" =>
    IF kcall.arg = <<>> \/ echo_identity_.identity_signature = <<>>
      THEN kcall.val[1] = 0
      ELSE LET distance == HashDistance(kcall.arg)
               k == DistinctMatchingPatterns(kcall.arg)
           IN  SameRatio(kcall.val,
                         <<distance[2] * Power(6, k) * echo_identity_.cognitive_weight,
                           (distance[2] + distance[1]) * Power(5, k) * 10>>)


(* C28: a store(k, v) makes v the value retrieve(k) returns and makes      *)
(* exists(k) true, and changes no other key; a clear leaves no key; no     *)
(* other call changes the memory, so each key holds the value of its most  *)
(* recent store since the last clear.  retrieve returns that value, or the *)
(* empty string when there is none; exists tells which; size is the number *)
(* of keys and decreases only in a clear.                                  *)
C28_MemoryLastWriteWins ==
  /\ [](LET held == kcall.arg \in DOMAIN memory_store_
        IN  /\ (kcall.op = "retrieve") =>
                 (kcall.val = (IF held THEN memory_store_[kcall.arg] ELSE ""))
            /\ (kcall.op = "exists") => (kcall.val = held)
            /\ (kcall.op = "size") =>
                 (kcall.val = Cardinality(DOMAIN memory_store_)))
  /\ [][
        /\ (kcall'.op = "store") =>
             /\ DOMAIN memory_store_' = (DOMAIN memory_store_) \cup {kcall'.arg}
             /\ memory_store_'[kcall'.arg] = kcall'.val
             /\ \A k \in DOMAIN memory_store_ :
                  k # kcall'.arg => memory_store_'[k] = memory_store_[k]
        /\ (kcall'.op = "clear") => (memory_store_' = EmptyMap)
        /\ (kcall'.op \notin {"store", "clear"}) => UNCHANGED memory_store_
        /\ (kcall'.op # "clear") =>
             (Cardinality(DOMAIN memory_store_') >= Cardinality(DOMAIN memory_store_))
     ]_vars

(* A stored key has been retrieved with its value while another key holds  *)
(* the empty string.                                                       *)
C28_Witness ==
  /\ kcall.op = "retrieve"
  /\ kcall.val = "other_value"
  /\ \E k \in DOMAIN memory_store_ : memory_store_[k] = ""


(* C29: on the MemorySubstratePersistence, save_node and save_edge return  *)
(* true and put the record under its id, replacing what was there and      *)
(* touching no other id; load returns true with the record held under the  *)
(* id, or false when there is none; remove returns true exactly when the   *)
(* id was held and leaves it absent; get_all_node_ids and get_all_edge_ids *)
(* list each held id once.  Held ids are therefore those saved and not     *)
(* since removed, each with its last saved record.                         *)
C29_MemoryStrategyContract ==
  [][
      LET kind == IF call'.op \in {"save_node", "load_node", "remove_node",
                                   "get_all_node_ids"} THEN "node" ELSE "edge"
          before == StrategyStore(kind)
          after == IF kind = "node" THEN persistence_nodes_' ELSE persistence_edges_'
          others_kept(id) ==
            /\ (DOMAIN after) \ {id} = (DOMAIN before) \ {id}
            /\ \A other \in (DOMAIN before) \ {id} : after[other] = before[other]
      IN  /\ (call'.op \in {"save_node", "save_edge"}) =>
               /\ call'.ret = "true"
               /\ call'.id \in DOMAIN after
               /\ after[call'.id] = call'.val
               /\ others_kept(call'.id)
          /\ (call'.op \in {"load_node", "load_edge"}) =>
               /\ after = before
               /\ IF call'.id \in DOMAIN before
                    THEN call'.ret = "true" /\ call'.val = before[call'.id]
                    ELSE call'.ret = "false"
          /\ (call'.op \in {"remove_node", "remove_edge"}) =>
               /\ (call'.ret = "true") = (call'.id \in DOMAIN before)
               /\ call'.ret \in {"true", "false"}
               /\ call'.id \notin DOMAIN after
               /\ others_kept(call'.id)
          /\ (call'.op \in {"get_all_node_ids", "get_all_edge_ids"}) =>
               /\ after = before
               /\ Elements(call'.val) = DOMAIN before
               /\ NoDuplicates(call'.val)
    ]_vars

(* The only node held, saved with activation 1.0, has been loaded while an *)
(* edge is held too.                                                       *)
C29_Witness ==
  /\ call.op = "load_node"
  /\ call.ret = "true"
  /\ call.val.activation_level = 10
  /\ Cardinality(DOMAIN persistence_nodes_) = 1
  /\ persistence_edges_ # EmptyMap


(* C30: find_nodes_by_attribute and find_edges_by_attribute return exactly *)
(* the stored ids whose attribute map holds the value under the key, and   *)
(* find_nodes_by_echo_pattern returns exactly the stored node ids whose    *)
(* pattern list has an entry equal to the pattern; each id is returned at  *)
(* most once, and the result is empty when nothing matches.                *)
C30_SearchReturnsMatches ==
  LET holds(table, id) ==
        /\ call.id[1] \in DOMAIN table[id].attributes
        /\ table[id].attributes[call.id[1]] = call.id[2]
  IN  /\ (call.op = "find_nodes_by_attribute") =>
           /\ call.ret = "value"
           /\ Elements(call.val) = { id \in DOMAIN nodes_ : holds(nodes_, id) }
           /\ NoDuplicates(call.val)
      /\ (call.op = "find_edges_by_attribute") =>
           /\ call.ret = "value"
           /\ Elements(call.val) = { id \in DOMAIN edges_ : holds(edges_, id) }
           /\ NoDuplicates(call.val)
      /\ (call.op = "find_nodes_by_echo_pattern") =>
           /\ call.ret = "value"
           /\ Elements(call.val) =
                { id \in DOMAIN nodes_ : call.id \in Elements(nodes_[id].echo_patterns) }
           /\ NoDuplicates(call.val)

(* A pattern search has returned two nodes, one of which lists the pattern *)
(* twice, while a stored edge carries an attribute.                        *)
C30_Witness ==
  /\ call.op = "find_nodes_by_echo_pattern"
  /\ Len(call.val) = 2
  /\ \E id \in DOMAIN nodes_ :
       pattern_pushes_without_break(nodes_[id].echo_patterns, call.id) = 2
  /\ \E e \in DOMAIN edges_ : edges_[e].attributes # EmptyMap


(* The level of node n in table. *)
Level(table, n) == table[n].activation_level

(* C31: each propagate(source, a) on a stored source adds exactly 0.7 * a, *)
(* once, to every node at hyperedge distance 1 or 2 from the source,       *)
(* however many edges or paths lead to it, sets the source to a and leaves *)
(* nodes at distance 3 or more as they were; after k successive calls with *)
(* the same arguments on the same graph each such node is at its level     *)
(* before the first call plus k * 0.7 * a.                                 *)
C31_PropagationAdditiveOncePerNode ==
  /\ [](propagations.count > 0 /\ propagations.edges = edges_
        /\ DOMAIN propagations.nodes = DOMAIN nodes_ =>
          LET src == propagations.source
              before == propagations.nodes
          IN  \A n \in DOMAIN nodes_ :
                Level(nodes_, n) =
                  IF src \notin DOMAIN nodes_ THEN Level(before, n)
                  ELSE IF n = src THEN propagations.activation
                  ELSE IF n \in WithinTwoHops(src)
                    THEN Level(before, n)
                           + propagations.count * ((propagations.activation * 7) \div 10)
                    ELSE Level(before, n))
  /\ [][
       call'.op = "propagate_activation" /\ call'.id \in DOMAIN nodes_ =>
         \A n \in DOMAIN nodes_ :
           Level(nodes_', n) =
             IF n = call'.id THEN call'.val.activation
             ELSE IF n \in WithinTwoHops(call'.id)
               THEN Level(nodes_, n) + (call'.val.activation * 7) \div 10
               ELSE Level(nodes_, n)
     ]_vars

(* Three successive propagate(1, 1.0) calls on a chain where two edges     *)
(* join node 1 to node 2: node 2, one hop away over both, and node 3, two  *)
(* hops away, are at 2.1, and node 4, joined to node 3 and three hops      *)
(* away, is still at 0.                                                    *)
C31_Witness ==
  /\ propagations.count = 3
  /\ propagations.source = 1
  /\ propagations.activation = 10
  /\ propagations.edges = edges_
  /\ DOMAIN nodes_ = PropagateNodeIds
  /\ \E e, f \in DOMAIN edges_ :
       e # f /\ edges_[e].connected_nodes = {1, 2} /\ edges_[f].connected_nodes = {1, 2}
  /\ Level(nodes_, 2) = 21
  /\ 3 \in WithinTwoHops(1) /\ ~Adjacent(1, 3) /\ Level(nodes_, 3) = 21
  /\ Adjacent(3, 4) /\ 4 \notin WithinTwoHops(1) /\ Level(nodes_, 4) = 0

(* C32: a propagate call on a stored source calls on_activation_propagation *)
(* exactly once, after every activation update of the call, with the       *)
(* source id, the reachable nodes the updates went to and the initial      *)
(* activation; a propagate call on an absent source does not call it.      *)
C32_HookOncePerPropagation ==
  [][
    call'.op = "propagate_activation" =>
      IF call'.id \in DOMAIN nodes_
        THEN call'.val.hook =
               <<[source |-> call'.id,
                  targets |-> WithinTwoHops(call'.id),
                  activation |-> call'.val.activation,
                  nodes |-> nodes_']>>
        ELSE call'.val.hook = <<>> /\ nodes_' = nodes_
  ]_vars

(* A propagate(1, 1.0) called the hook once, with node 2 one hop and node  *)
(* 3 two hops away as targets, and the hook found both raised to 0.7.      *)
C32_Witness ==
  /\ call.op = "propagate_activation"
  /\ Len(call.val.hook) = 1
  /\ call.val.hook[1].source = 1
  /\ call.val.hook[1].targets = {2, 3}
  /\ call.val.hook[1].activation = 10
  /\ ~Adjacent(1, 3)
  /\ Level(call.val.hook[1].nodes, 2) = 7
  /\ Level(call.val.hook[1].nodes, 3) = 7
  /\ propagations.count = 1

(* Every stored edge joins exactly two nodes and no two stored edges join  *)
(* the same two.                                                           *)
SimpleGraph ==
  /\ \A e \in DOMAIN edges_ : Cardinality(edges_[e].connected_nodes) = 2
  /\ \A e, f \in DOMAIN edges_ :
       edges_[e].connected_nodes = edges_[f].connected_nodes => e = f

(* C33 as stated: the density returned lies in [0, 1] in every reachable   *)
(* state.                                                                  *)
C33_DensityIsFraction ==
  call.op = "calculate_substrate_density" =>
    /\ call.val[1] >= 0
    /\ call.val[1] <= call.val[2]

(* C33: the density returned is never negative, and it is at most 1        *)
(* whenever the stored edges join pairwise different pairs of nodes; it is *)
(* above 1 as soon as more edges than pairs of nodes are stored.           *)
C33_DensityIsFractionOfSimpleGraph ==
  call.op = "calculate_substrate_density" =>
    LET node_count == Cardinality(DOMAIN nodes_)
        pairs == (node_count * (node_count - 1)) \div 2
    IN  /\ call.val[1] >= 0 /\ call.val[2] > 0
        /\ SimpleGraph => call.val[1] <= call.val[2]
        /\ (node_count >= 2 /\ Cardinality(DOMAIN edges_) > pairs) =>
             call.val[1] > call.val[2]

(* The density of three nodes with two edges between different pairs has   *)
(* been returned: two thirds.                                              *)
C33_Witness ==
  /\ call.op = "calculate_substrate_density"
  /\ Cardinality(DOMAIN nodes_) = 3
  /\ Cardinality(DOMAIN edges_) = 2
  /\ SimpleGraph
  /\ call.val = <<2, 3>>

(* C35: with the in-memory strategy, after any sequence of public calls    *)
(* the strategy holds exactly the node ids and the edge ids of the live    *)
(* tables, and each persisted edge has the members of the live edge.       *)
C35_StrategyMirrorsLiveKeys ==
  /\ DOMAIN persistence_nodes_ = DOMAIN nodes_
  /\ DOMAIN persistence_edges_ = DOMAIN edges_
  /\ \A e \in DOMAIN edges_ :
       persistence_edges_[e].connected_nodes = edges_[e].connected_nodes

(* A two-member edge is held live and by the strategy after a propagation  *)
(* over it, which left the persisted copy of a member behind the live one. *)
C35_Witness ==
  /\ persistence_.type = "MemorySubstratePersistence"
  /\ \E e \in DOMAIN edges_ :
       /\ e \in DOMAIN persistence_edges_
       /\ Cardinality(edges_[e].connected_nodes) = 2
       /\ \E n \in edges_[e].connected_nodes :
            /\ n \in DOMAIN persistence_nodes_
            /\ nodes_[n].activation_level = 7
            /\ persistence_nodes_[n].activation_level = 0

(* The strategy's records are consistent: every member of every persisted  *)
(* edge is a persisted node.                                               *)
ConsistentStore ==
  \A e \in DOMAIN persistence_edges_ :
    persistence_edges_[e].connected_nodes \subseteq DOMAIN persistence_nodes_

(* C36 as stated: when load_substrate returns on a strategy whose records  *)
(* are consistent, every member of every live edge is a key of the live    *)
(* node table, also when load_node failed for some of the listed ids.      *)
C36_LoadPreservesIntegrity ==
  (call.op = "load_substrate" /\ ConsistentStore) =>
    \A e \in DOMAIN edges_ : edges_[e].connected_nodes \subseteq DOMAIN nodes_

(* C37 as stated: add_node, update_node, add_edge and update_edge return   *)
(* true only if the strategy's save of the record succeeded, so after a    *)
(* true result the strategy holds the record.                              *)
C37_TrueMeansSaved ==
  /\ (call.op \in {"add_node", "update_node"} /\ call.ret = "true") =>
       /\ call.id \in DOMAIN persistence_nodes_
       /\ persistence_nodes_[call.id] = call.val
  /\ (call.op \in {"add_edge", "update_edge"} /\ call.ret = "true") =>
       /\ call.id \in DOMAIN persistence_edges_
       /\ persistence_edges_[call.id] = edges_[call.id]

(* The memory key of the pattern with index i, counted from 0. *)
PatternKey(i) == "deep_tree_echo.pattern." \o ToString(i)

(* C39 as stated: after initialize(identity) memory holds an entry         *)
(* deep_tree_echo.pattern.<i> exactly for the indices i below the number   *)
(* of patterns of the identity, each equal to pattern i, also when the     *)
(* kernel had been initialized with another identity before; and a second  *)
(* initialize(identity) right after the first changes neither state nor    *)
(* memory.                                                                 *)
C39_InitializeReseedsPatterns ==
  /\ [](kcall.op = "initialize" =>
          \A i \in 0..3 :
            IF i < Len(echo_identity_.echo_patterns)
              THEN /\ PatternKey(i) \in DOMAIN memory_store_
                   /\ memory_store_[PatternKey(i)] = Str(echo_identity_.echo_patterns[i + 1])
              ELSE PatternKey(i) \notin DOMAIN memory_store_)
  /\ [][ (kcall.op = "initialize" /\ kcall'.op = "initialize"
          /\ echo_identity_' = echo_identity_) =>
           UNCHANGED <<current_state_, memory_store_>>
     ]_vars

(* C40: when process_cognitive_signal is called one call at a time, the    *)
(* process_count entry in memory after the k-th call is k, calls whose     *)
(* hook threw included: a failed call puts the state back and leaves the   *)
(* last_signal, last_resonance and process_count it wrote.                 *)
C40_ProcessCountCountsEveryCall ==
  [][
    \A signal_data \in { t \in Signals : kcall'.op = "process_cognitive_signal" } :
      \A hook \in {"returns", "throws"} :
        process_cognitive_signal(signal_data, hook) =>
          LET counted == IF "process_count" \in DOMAIN memory_store_
                           THEN memory_store_["process_count"] ELSE "0"
          IN  /\ {"last_signal", "last_resonance", "process_count"}
                   \subseteq DOMAIN memory_store_'
              /\ \E k \in 1..MaxProcessCount :
                   /\ counted = ToString(k - 1)
                   /\ memory_store_'["process_count"] = ToString(k)
              /\ memory_store_'["last_signal"] = Str(signal_data)
              /\ memory_store_'["last_resonance"] =
                   DoubleToString(calculate_resonance(signal_data))
              /\ hook = "throws" =>
                   /\ kcall'.ret = "exception"
                   /\ current_state_' = current_state_
                   /\ echo_identity_' = echo_identity_
  ]_vars

(* The second call on a kernel failed in its hook and is counted: the      *)
(* state is the one before the call and process_count is 2.                *)
C40_Witness ==
  /\ kcall.op = "process_cognitive_signal"
  /\ kcall.hook = "throws"
  /\ kcall.before = "REFLECTING"
  /\ current_state_ = "REFLECTING"
  /\ memory_store_["process_count"] = "2"
  /\ memory_store_["last_signal"] = "ab"

(* C38 as stated: once onTrigger has returned or thrown, the kernel is in  *)
(* REFLECTING if process_with_cognition returned and in DORMANT if it      *)
(* threw, whatever it threw, and so never in PROCESSING.                   *)
C38_TriggerEndsReflectingOrDormant ==
  (processor.pc = "idle" /\ processor.outcome # "none") =>
    /\ current_state_ = IF processor.outcome = "returned"
                          THEN "REFLECTING" ELSE "DORMANT"
    /\ current_state_ # "PROCESSING"

(* The relationships HypergraphMapperProcessor declares. *)
Relationships == {"mapped", "enhanced", "clustered", "isolated"}

(* The transfers of flow file id the session has recorded. *)
Transfers(id) ==
  { i \in 1..Len(processor.transferred) : processor.transferred[i].flow_file = id }

(* C34: every flow file process_with_hypergraph takes from the session is  *)
(* eventually transferred, to exactly one of Mapped, Enhanced, Clustered   *)
(* and Isolated: no flow file is transferred twice or elsewhere, and a     *)
(* flow file in the processor's hand leads to its one transfer.            *)
C34_EveryFlowFileEventuallyTransferred ==
  /\ [](\A id \in FlowFileIds :
         /\ Cardinality(Transfers(id)) <= 1
         /\ \A i \in Transfers(id) :
              processor.transferred[i].relationship \in Relationships)
  /\ \A id \in FlowFileIds :
       (processor.flow_file = id) ~> (Cardinality(Transfers(id)) = 1)

====
